---------------------------- MODULE Spec2Model ----------------------------
(***************************************************************************)
(* A model of the shrina-proxy request pipeline: URL admission, response   *)
(* cache lookup, header synthesis, upstream fetch, stream path / buffered  *)
(* path, decompression, playlist rewriting and response cache store.       *)
(*                                                                         *)
(* Strings the code inspects character by character (URLs, Range headers,  *)
(* playlist lines) are sequences of one-character strings, so that         *)
(* endsWith / includes / regular expressions are computed as the code      *)
(* computes them.                                                          *)
(***************************************************************************)
EXTENDS Integers, Sequences, FiniteSets, TLC

(***************************************************************************)
(* String primitives (JavaScript String methods on character sequences).   *)
(***************************************************************************)
UpperChars ==
  <<"A","B","C","D","E","F","G","H","I","J","K","L","M",
    "N","O","P","Q","R","S","T","U","V","W","X","Y","Z">>

LowerChars ==
  <<"a","b","c","d","e","f","g","h","i","j","k","l","m",
    "n","o","p","q","r","s","t","u","v","w","x","y","z">>

Digits == <<"0","1","2","3","4","5","6","7","8","9">>

IsDigit(c) == \E i \in 1..10 : Digits[i] = c

DigitVal(c) == (CHOOSE i \in 1..10 : Digits[i] = c) - 1

IsAlpha(c) == \E i \in 1..26 : UpperChars[i] = c \/ LowerChars[i] = c

LowerChar(c) ==
  IF \E i \in 1..26 : UpperChars[i] = c
  THEN LowerChars[CHOOSE i \in 1..26 : UpperChars[i] = c]
  ELSE c

UpperChar(c) ==
  IF \E i \in 1..26 : LowerChars[i] = c
  THEN UpperChars[CHOOSE i \in 1..26 : LowerChars[i] = c]
  ELSE c

toLowerCase(s) == [i \in 1..Len(s) |-> LowerChar(s[i])]

toUpperCase(s) == [i \in 1..Len(s) |-> UpperChar(s[i])]

\* s has p at (1-based) position i
HasAt(s, i, p) ==
  /\ i >= 1
  /\ i + Len(p) - 1 <= Len(s)
  /\ \A k \in 1..Len(p) : s[i + k - 1] = p[k]

startsWith(s, p) == HasAt(s, 1, p)

endsWith(s, p) == HasAt(s, Len(s) - Len(p) + 1, p)

includes(s, p) == \E i \in 1..(Len(s) + 1) : HasAt(s, i, p)

\* position of the first occurrence of p in s, 0 when there is none
indexOf(s, p) ==
  IF includes(s, p)
  THEN CHOOSE i \in 1..(Len(s) + 1) :
         HasAt(s, i, p) /\ \A j \in 1..(i - 1) : ~HasAt(s, j, p)
  ELSE 0

\* substring of s from position i (1-based) to position j inclusive
Sub(s, i, j) == IF j < i THEN <<>> ELSE SubSeq(s, i, j)

\* length of the longest run of digits of s that starts at position i
RECURSIVE DigitRun(_, _)
DigitRun(s, i) ==
  IF i <= Len(s) /\ IsDigit(s[i]) THEN 1 + DigitRun(s, i + 1) ELSE 0

RECURSIVE parseInt(_)
parseInt(s) ==
  IF s = <<>> THEN 0
  ELSE 10 * parseInt(Sub(s, 1, Len(s) - 1)) + DigitVal(s[Len(s)])


(***************************************************************************)
(* Regular expressions of the source, as sequences of items: a literal, a  *)
(* run of one or more digits (\d+), or the end anchor ($).  All patterns   *)
(* of the source carry the i flag: they are matched on the lowercased      *)
(* string.                                                                 *)
(***************************************************************************)
RECURSIVE MatchAt(_, _, _)
MatchAt(s, i, pat) ==
  IF pat = <<>> THEN TRUE
  ELSE LET it == Head(pat) IN
    CASE it.k = "lit" -> HasAt(s, i, it.s) /\ MatchAt(s, i + Len(it.s), Tail(pat))
      [] it.k = "d+"  -> \E m \in 1..DigitRun(s, i) : MatchAt(s, i + m, Tail(pat))
      [] OTHER        -> i = Len(s) + 1 /\ MatchAt(s, i, Tail(pat))

RegexTest(pat, s) ==
  LET l == toLowerCase(s) IN \E i \in 1..(Len(l) + 1) : MatchAt(l, i, pat)

(***************************************************************************)
(* config/mime-types                                                       *)
(***************************************************************************)
SEGMENT_PATTERNS == <<
  <<[k |-> "lit", s |-> <<"s","e","g","-">>], [k |-> "d+", s |-> <<>>]>>,
  <<[k |-> "lit", s |-> <<"s","e","g","m","e","n","t","-">>], [k |-> "d+", s |-> <<>>]>>,
  <<[k |-> "lit", s |-> <<"c","h","u","n","k","-">>], [k |-> "d+", s |-> <<>>]>>,
  <<[k |-> "lit", s |-> <<"f","r","a","g","-">>], [k |-> "d+", s |-> <<>>]>>,
  <<[k |-> "lit", s |-> <<"p","a","r","t","-">>], [k |-> "d+", s |-> <<>>]>>,
  <<[k |-> "lit", s |-> <<"-","v">>], [k |-> "d+", s |-> <<>>], [k |-> "lit", s |-> <<"-","a">>], [k |-> "d+", s |-> <<>>]>>,
  <<[k |-> "lit", s |-> <<"-","f">>], [k |-> "d+", s |-> <<>>], [k |-> "lit", s |-> <<"-","v">>], [k |-> "d+", s |-> <<>>], [k |-> "lit", s |-> <<"-","a">>], [k |-> "d+", s |-> <<>>]>>,
  <<[k |-> "lit", s |-> <<"m","e","d","i","a","-">>], [k |-> "d+", s |-> <<>>]>>,
  <<[k |-> "lit", s |-> <<"s","t","r","e","a","m","_">>], [k |-> "d+", s |-> <<>>]>>,
  <<[k |-> "lit", s |-> <<"_">>], [k |-> "d+", s |-> <<>>], [k |-> "lit", s |-> <<".","t","s">>], [k |-> "$", s |-> <<>>]>>,
  <<[k |-> "lit", s |-> <<"_">>], [k |-> "d+", s |-> <<>>], [k |-> "lit", s |-> <<".","m","4","s">>], [k |-> "$", s |-> <<>>]>>
>>

\* extension -> MIME type, as pairs
COMMON_MIME_TYPES ==
  {<<<<"t","x","t">>, "text/plain">>,
   <<<<"h","t","m","l">>, "text/html">>,
   <<<<"c","s","s">>, "text/css">>,
   <<<<"c","s","v">>, "text/csv">>,
   <<<<"j","s","o","n">>, "application/json">>,
   <<<<"j","s">>, "application/javascript">>,
   <<<<"x","m","l">>, "application/xml">>,
   <<<<"p","d","f">>, "application/pdf">>,
   <<<<"j","p","g">>, "image/jpeg">>,
   <<<<"j","p","e","g">>, "image/jpeg">>,
   <<<<"p","n","g">>, "image/png">>,
   <<<<"g","i","f">>, "image/gif">>,
   <<<<"w","e","b","p">>, "image/webp">>,
   <<<<"s","v","g">>, "image/svg+xml">>,
   <<<<"m","p","3">>, "audio/mpeg">>,
   <<<<"w","a","v">>, "audio/wav">>,
   <<<<"o","g","g">>, "audio/ogg">>,
   <<<<"m","p","4">>, "video/mp4">>,
   <<<<"w","e","b","m">>, "video/webm">>,
   <<<<"a","v","i">>, "video/x-msvideo">>,
   <<<<"m","p","e","g">>, "video/mpeg">>,
   <<<<"m","o","v">>, "video/quicktime">>,
   <<<<"m","3","u","8">>, "application/vnd.apple.mpegurl">>,
   <<<<"t","s">>, "video/mp2t">>,
   <<<<"m","p","d">>, "application/dash+xml">>,
   <<<<"v","t","t">>, "text/vtt">>,
   <<<<"s","r","t">>, "application/x-subrip">>}

STREAMING_FORMATS ==
  {<<<<"m","3","u","8">>, "application/vnd.apple.mpegurl">>,
   <<<<"m","3","u">>, "application/vnd.apple.mpegurl">>,
   <<<<"t","s">>, "video/mp2t">>,
   <<<<"m","t","s">>, "video/mp2t">>,
   <<<<"m","2","t","s">>, "video/mp2t">>,
   <<<<"m","p","e","g","-","t","s">>, "video/mp2t">>,
   <<<<"m","p","2","t">>, "video/mp2t">>,
   <<<<"m","p","d">>, "application/dash+xml">>,
   <<<<"m","p","4","a">>, "audio/mp4">>,
   <<<<"m","p","4","v">>, "video/mp4">>,
   <<<<"m","4","s">>, "video/iso.segment">>,
   <<<<"m","4","a">>, "audio/mp4">>,
   <<<<"m","4","v">>, "video/mp4">>,
   <<<<"v","t","t">>, "text/vtt">>,
   <<<<"s","r","t">>, "application/x-subrip">>,
   <<<<"t","t","m","l">>, "application/ttml+xml">>,
   <<<<"j","p","g","-","t","s">>, "video/mp2t">>}

TableHas(tbl, ext) == \E e \in tbl : e[1] = ext

TableGet(tbl, ext) == (CHOOSE e \in tbl : e[1] = ext)[2]

SuspiciousExtensions ==
  {<<".","j","s">>, <<".","j","p","g">>, <<".","p","n","g">>, <<".","g","i","f">>, <<".","c","s","s">>, <<".","h","t","m","l">>}

isDisguisedSegment(path) ==
  /\ path # <<>>
  /\ \E i \in 1..Len(SEGMENT_PATTERNS) : RegexTest(SEGMENT_PATTERNS[i], path)
  /\ \E ext \in SuspiciousExtensions : endsWith(toLowerCase(path), ext)

isM3u8Playlist(path) ==
  /\ path # <<>>
  /\ \/ endsWith(toLowerCase(path), <<".","m","3","u","8">>)
     \/ endsWith(toLowerCase(path), <<".","m","3","u">>)

\* path.split('.').pop(): what follows the last dot (all of path without one)
RECURSIVE LastDot(_, _)
LastDot(s, i) == IF i = 0 \/ s[i] = "." THEN i ELSE LastDot(s, i - 1)

Extension(path) == toLowerCase(Sub(path, LastDot(path, Len(path)) + 1, Len(path)))

\* the MIME type as a content type (a token sequence), <<>> for undefined
getMimeType(path) ==
  LET ByExtension(extension) ==
        IF path = <<>> \/ extension = <<>> THEN <<>>
        ELSE IF isDisguisedSegment(path) THEN <<"video/mp2t">>
        ELSE IF /\ extension = <<"j","p","g">>
                /\ includes(path, <<"s","e","g","m","e","n","t","-">>)
                /\ includes(path, <<"-","v","1","-","a","1">>)
             THEN <<"video/mp2t">>
        ELSE IF TableHas(STREAMING_FORMATS, extension)
             THEN <<TableGet(STREAMING_FORMATS, extension)>>
        ELSE IF TableHas(COMMON_MIME_TYPES, extension)
             THEN <<TableGet(COMMON_MIME_TYPES, extension)>>
        ELSE <<>>
  IN ByExtension(Extension(path))

(***************************************************************************)
(* Content types are sequences of tokens ("text/vtt", "; charset=utf-8");  *)
(* <<>> is a missing (null) content type.  String.includes of a literal    *)
(* media type is token membership.                                         *)
(***************************************************************************)
CtIncludes(ct, tok) == \E i \in 1..Len(ct) : ct[i] = tok

(***************************************************************************)
(* new URL(url): the parts of the WHATWG parser the handlers rely on.      *)
(***************************************************************************)
SpecialSchemes == {<<"h","t","t","p">>, <<"h","t","t","p","s">>, <<"f","t","p">>, <<"w","s">>, <<"w","s","s">>}

HostStop == {"/", "?", "#"}

ForbiddenHostChars == {" ", "<", ">", "^", "|", "[", "]", "%"}

RECURSIVE SkipSlashes(_, _)
SkipSlashes(s, i) ==
  IF i <= Len(s) /\ s[i] = "/" THEN SkipSlashes(s, i + 1) ELSE i

RECURSIVE UntilStop(_, _)
UntilStop(s, i) ==
  IF i <= Len(s) /\ s[i] \notin HostStop THEN UntilStop(s, i + 1) ELSE i

RECURSIVE UntilColon(_, _)
UntilColon(s, i) ==
  IF i <= Len(s) /\ s[i] # ":" THEN UntilColon(s, i + 1) ELSE i

SchemeChar(c) == IsAlpha(c) \/ IsDigit(c) \/ c \in {"+", "-", "."}

DefaultPort(scheme) ==
  IF scheme = <<"h","t","t","p","s">> \/ scheme = <<"w","s","s">> THEN <<"4","4","3">>
  ELSE IF scheme = <<"h","t","t","p">> \/ scheme = <<"w","s">> THEN <<"8","0">>
  ELSE IF scheme = <<"f","t","p">> THEN <<"2","1">>
  ELSE <<>>

FailedUrl == [ok |-> FALSE, protocol |-> <<>>, host |-> <<>>, hostname |-> <<>>]

ParseUrl(u) ==
  LET HostPort(scheme, spec, hname, port) ==
        IF \/ \E k \in 1..Len(port) : ~IsDigit(port[k])
           \/ \E k \in 1..Len(hname) : hname[k] \in ForbiddenHostChars
           \/ (spec /\ hname = <<>>)
        THEN FailedUrl
        ELSE [ok |-> TRUE,
              protocol |-> scheme \o <<":">>,
              host |-> IF port = <<>> \/ port = DefaultPort(scheme)
                       THEN hname ELSE hname \o <<":">> \o port,
              hostname |-> hname]
      Split(scheme, spec, auth, pc) ==
        HostPort(scheme, spec, Sub(auth, 1, pc - 1), Sub(auth, pc + 1, Len(auth)))
      Authority(scheme, spec, auth) == Split(scheme, spec, auth, UntilColon(auth, 1))
      From(scheme, spec, from) ==
        Authority(scheme, spec, toLowerCase(Sub(u, from, UntilStop(u, from) - 1)))
      Scheme(c, scheme, spec) ==
        IF ~(spec \/ HasAt(u, c + 1, <<"/", "/">>))
        THEN [ok |-> TRUE, protocol |-> scheme \o <<":">>, host |-> <<>>, hostname |-> <<>>]
        ELSE From(scheme, spec, IF spec THEN SkipSlashes(u, c + 1) ELSE c + 3)
      Lowered(c, scheme) == Scheme(c, scheme, scheme \in SpecialSchemes)
      Colon(c) ==
        IF ~(c > 1 /\ IsAlpha(u[1]) /\ \A k \in 2..(c - 1) : SchemeChar(u[k]))
        THEN FailedUrl
        ELSE Lowered(c, toLowerCase(Sub(u, 1, c - 1)))
  IN Colon(indexOf(u, <<":">>))

(***************************************************************************)
(* utils/helpers: validateUrl                                              *)
(***************************************************************************)
validateUrl(url, maxUrlLength, allowedDomains) ==
  LET Parsed(urlObj) ==
        IF ~urlObj.ok THEN [valid |-> FALSE, reason |-> "Invalid URL format"]
        ELSE IF allowedDomains # {} /\ urlObj.hostname \notin allowedDomains
             THEN [valid |-> FALSE, reason |-> "Domain not in allowed domains list"]
        ELSE [valid |-> TRUE, reason |-> ""]
  IN
  IF url = <<>> THEN [valid |-> FALSE, reason |-> "URL cannot be empty"]
  ELSE IF Len(url) > maxUrlLength
       THEN [valid |-> FALSE, reason |-> "URL exceeds maximum length"]
  ELSE IF startsWith(url, <<"/">>) THEN [valid |-> TRUE, reason |-> ""]
  ELSE IF includes(url, <<":", "/", "/">>) THEN Parsed(ParseUrl(url))
  ELSE [valid |-> TRUE, reason |-> ""]

(***************************************************************************)
(* Bodies.  A buffer is described by what the code can observe of it:      *)
(*   pl    the payload it carries once decoded: a sequence of lines        *)
(*         [t, n, v] (t = "tag": a playlist tag n; t = "uri": a line       *)
(*         holding the reference v; t = "bin": an opaque blob named n)     *)
(*   fmt   the one codec that decodes the bytes ("none": plain bytes, or   *)
(*         bytes no codec accepts)                                         *)
(*   magic the codec whose magic number the bytes start with               *)
(*   len   the byte length; dlen the length once decoded                   *)
(*   b47   the offsets (among the ones the sniffer reads) that hold 0x47;  *)
(*         d47 the same for the decoded bytes                              *)
(*   off   the offset of the buffer in the bytes it was sliced from        *)
(***************************************************************************)
EmptyBody ==
  [pl |-> <<>>, fmt |-> "none", magic |-> "none", len |-> 0, dlen |-> 0,
   b47 |-> {}, d47 |-> {}, off |-> 0]

Tag(n) == [t |-> "tag", n |-> n, v |-> <<>>]

Uri(v) == [t |-> "uri", n |-> "", v |-> v]

TagUri(n, v) == [t |-> "uri", n |-> n, v |-> v]

LineLen(l) == IF l.t = "uri" /\ l.n = "" THEN Len(l.v) ELSE Len(l.v) + 8

RECURSIVE TextLen(_)
TextLen(lines) ==
  IF lines = <<>> THEN 0 ELSE LineLen(Head(lines)) + 1 + TextLen(Tail(lines))

TextBody(lines) == [EmptyBody EXCEPT !.pl = lines, !.len = TextLen(lines)]

BinBody(name, len, b47) ==
  [EmptyBody EXCEPT !.pl = <<[t |-> "bin", n |-> name, v |-> <<>>]>>,
                    !.len = len, !.b47 = b47]

MagicOf(codec) == IF codec \in {"gzip", "zstd"} THEN codec ELSE "none"

\* the bytes a server produces when it encodes body b with codec, elen long
Encoded(codec, b, elen) ==
  [pl |-> b.pl, fmt |-> codec, magic |-> MagicOf(codec), len |-> elen,
   dlen |-> b.len, b47 |-> {}, d47 |-> b.b47, off |-> 0]

\* Buffer.slice(start, end)
BufferSlice(b, start, end) ==
  LET e == IF end > b.len THEN b.len ELSE end
      n == IF e > start THEN e - start ELSE 0
  IN [b EXCEPT !.off = b.off + start, !.len = n]

ByteIs47(b, k) == k < b.len /\ (b.off + k) \in b.b47

(***************************************************************************)
(* The codecs (zlib gunzip / brotliDecompress / inflate, fzstd): a codec   *)
(* accepts exactly the whole buffers of its own format.                    *)
(***************************************************************************)
CodecOk(method, b) == b.fmt = method /\ b.off = 0 /\ b.len > 0

CodecOut(b) ==
  [pl |-> b.pl, fmt |-> "none", magic |-> "none", len |-> b.dlen, dlen |-> 0,
   b47 |-> b.d47, d47 |-> {}, off |-> 0]

(***************************************************************************)
(* utils/helpers: decompression.  Every operator returns                   *)
(* [out |-> the buffer returned, tried |-> the codecs attempted in order,  *)
(*  ok |-> whether some codec succeeded].                                  *)
(***************************************************************************)
RECURSIVE TryMethods(_, _, _)
TryMethods(methods, b, tried) ==
  IF methods = <<>> THEN [out |-> b, tried |-> tried, ok |-> FALSE]
  ELSE IF CodecOk(Head(methods), b)
       THEN [out |-> CodecOut(b), tried |-> Append(tried, Head(methods)), ok |-> TRUE]
  ELSE TryMethods(Tail(methods), b, Append(tried, Head(methods)))

autoDetectAndDecompress(b) ==
  LET gz == IF b.len > 2 /\ b.magic = "gzip" THEN <<"gzip">> ELSE <<>>
      zs == IF b.len > 4 /\ b.magic = "zstd" THEN <<"zstd">> ELSE <<>>
  IN TryMethods(gz \o zs \o <<"brotli", "deflate">>, b, <<>>)

ReplaceBr(encoding) == IF encoding = "br" THEN "brotli" ELSE encoding

\* the fallback with zstd tried last instead of first
fallbackDecompression_ZstdLast(b, failedEncoding) ==
  LET zs     == IF failedEncoding # "zstd" THEN <<"zstd">> ELSE <<>>
      others == SelectSeq(<<"gzip", "brotli", "deflate">>,
                          LAMBDA m : m # ReplaceBr(failedEncoding))
  IN TryMethods(others \o zs, b, <<ReplaceBr(failedEncoding)>>)

\* the fallback returning an empty buffer when every codec failed
fallbackDecompression_EmptyOnFailure(b, failedEncoding) ==
  LET zs     == IF failedEncoding # "zstd" THEN <<"zstd">> ELSE <<>>
      others == SelectSeq(<<"gzip", "brotli", "deflate">>,
                          LAMBDA m : m # ReplaceBr(failedEncoding))
      Out(r) == IF r.ok THEN r ELSE [r EXCEPT !.out = EmptyBody]
  IN Out(TryMethods(zs \o others, b, <<ReplaceBr(failedEncoding)>>))

fallbackDecompression(b, failedEncoding) ==
  LET zs     == IF failedEncoding # "zstd" THEN <<"zstd">> ELSE <<>>
      others == SelectSeq(<<"gzip", "brotli", "deflate">>,
                          LAMBDA m : m # ReplaceBr(failedEncoding))
  IN TryMethods(zs \o others, b, <<ReplaceBr(failedEncoding)>>)

\* contentEncoding.toLowerCase().trim() on the header values of the model
EncodingNorm(contentEncoding) ==
  CASE contentEncoding = "GZIP" -> "gzip"
    [] contentEncoding = "Br"   -> "br"
    [] OTHER                    -> contentEncoding

decompressContent(b, contentEncoding) ==
  LET encoding == EncodingNorm(contentEncoding) IN
  IF contentEncoding = "" THEN autoDetectAndDecompress(b)
  ELSE IF encoding \in {"gzip", "br", "zstd", "deflate"}
       THEN IF CodecOk(ReplaceBr(encoding), b)
            THEN [out |-> CodecOut(b), tried |-> <<ReplaceBr(encoding)>>, ok |-> TRUE]
            ELSE fallbackDecompression(b, encoding)
  ELSE autoDetectAndDecompress(b)

(***************************************************************************)
(* utils/worker-pool: decompressWithWorker decodes inline below the size   *)
(* threshold or when the queue is full, and in a worker otherwise; either  *)
(* way the result is that of decompressContent.                            *)
(***************************************************************************)
decompressWithWorker(b, contentEncoding) == decompressContent(b, contentEncoding)

(***************************************************************************)
(* utils/m3u8-handler: the playlist rewriter.                              *)
(***************************************************************************)
PROXY_BASE == <<"/">>

PercentEncoded ==
  {<<":", <<"%","3","A">>>>,
   <<"/", <<"%","2","F">>>>,
   <<"?", <<"%","3","F">>>>,
   <<"=", <<"%","3","D">>>>,
   <<"&", <<"%","2","6">>>>,
   <<"#", <<"%","2","3">>>>,
   <<"%", <<"%","2","5">>>>,
   <<"+", <<"%","2","B">>>>,
   <<" ", <<"%","2","0">>>>,
   <<",", <<"%","2","C">>>>,
   <<"@", <<"%","4","0">>>>}

RECURSIVE encodeURIComponent(_)
encodeURIComponent(s) ==
  IF s = <<>> THEN <<>>
  ELSE (IF \E e \in PercentEncoded : e[1] = Head(s)
        THEN (CHOOSE e \in PercentEncoded : e[1] = Head(s))[2]
        ELSE <<Head(s)>>) \o encodeURIComponent(Tail(s))

RECURSIVE LastSlash(_, _)
LastSlash(s, i) == IF i = 0 \/ s[i] = "/" THEN i ELSE LastSlash(s, i - 1)

\* a reference resolved against the target URL
ResolveUrl(ref, targetUrl) ==
  LET Against(t) ==
        IF startsWith(ref, <<"/", "/">>) THEN t.protocol \o ref
        ELSE t.protocol \o <<"/", "/">> \o t.host \o ref
  IN
  IF startsWith(ref, <<"h","t","t","p",":","/","/">>) \/ startsWith(ref, <<"h","t","t","p","s",":","/","/">>) THEN ref
  ELSE IF startsWith(ref, <<"/">>) THEN Against(ParseUrl(targetUrl))
  ELSE Sub(targetUrl, 1, LastSlash(targetUrl, Len(targetUrl))) \o ref

ProxyUrl(proxyBaseUrl, urlParamName, absoluteUrl) ==
  proxyBaseUrl \o <<"?">> \o urlParamName \o <<"=">> \o encodeURIComponent(absoluteUrl)

\* the test taking any line for the #EXTM3U tag
ContainsExtM3U_AnyLine(lines) == lines # <<>>

\* text.toUpperCase().includes('#EXTM3U') on the tag names of the model
ContainsExtM3U(lines) ==
  \E i \in 1..Len(lines) :
    lines[i].t = "tag" /\ lines[i].n \in {"#EXTM3U", "#extm3u", "#ExtM3u"}

processM3u8Content(lines, proxyBaseUrl, targetUrl, urlParamName) ==
  IF ~ContainsExtM3U(lines) THEN lines
  ELSE [i \in 1..Len(lines) |->
          IF lines[i].t = "uri" /\ lines[i].v # <<>>
          THEN [lines[i] EXCEPT
                  !.v = ProxyUrl(proxyBaseUrl, urlParamName, ResolveUrl(lines[i].v, targetUrl))]
          ELSE lines[i]]

\* the buffer that holds a rewritten text
WithText(b, lines) ==
  IF lines = b.pl THEN b ELSE [b EXCEPT !.pl = lines, !.len = TextLen(lines)]

\* new TextDecoder('utf-8').decode(buffer): bytes that are still encoded
\* decode to text without any playlist line
DecodeText(b) == IF b.fmt = "none" THEN b.pl ELSE <<>>

(***************************************************************************)
(* utils/cache: the response cache, entries in insertion order (oldest     *)
(* first).  An entry also records, for the properties, the exchange that   *)
(* wrote it (w).                                                           *)
(***************************************************************************)
MAX_CACHE_ITEM_BYTES == 10 * 1024 * 1024

CACHE_MAX_BYTES == 2 * MAX_CACHE_ITEM_BYTES

Lookup(h, n) == IF n \in DOMAIN h THEN h[n] ELSE <<>>

\* the fingerprint: the target URL and the representation headers (no Range)
generateCacheKey(url, headers) ==
  [url |-> url, accept |-> Lookup(headers, "accept")]

CacheHas(c, key) == \E i \in 1..Len(c) : c[i].key = key

getCacheItem(c, key) == c[CHOOSE i \in 1..Len(c) : c[i].key = key]

RECURSIVE CacheBytes(_)
CacheBytes(c) == IF c = <<>> THEN 0 ELSE Head(c).data.len + CacheBytes(Tail(c))

RECURSIVE Evict(_)
Evict(c) == IF c # <<>> /\ CacheBytes(c) > CACHE_MAX_BYTES THEN Evict(Tail(c)) ELSE c

setCacheItem(c, key, data, size, w) ==
  IF size > MAX_CACHE_ITEM_BYTES THEN c
  ELSE Evict(Append(SelectSeq(c, LAMBDA x : x.key # key),
                    [key |-> key, data |-> data, w |-> w]))


(***************************************************************************)
(* config/domain-templates                                                 *)
(***************************************************************************)
userAgents ==
  << <<"Firefox/137.0">>, <<"Chrome/121.0.0.0">>, <<"Chrome/119.0.0.0">>,
     <<"Chrome/114.0.0.0">> >>

EmptyMap == [n \in {} |-> <<>>]

\* Object.assign(a, b)
Assign(a, b) ==
  [n \in (DOMAIN a) \cup (DOMAIN b) |-> IF n \in DOMAIN b THEN b[n] ELSE a[n]]

Without(h, names) == [n \in (DOMAIN h) \ names |-> h[n]]

\* the first two templates of the list, the first of those that carry
\* cache-control and pragma (frostbite27.pro), and the last, which matches any host
domainTemplates == <<
  [pattern |-> <<[k |-> "lit", s |-> <<".","p","a","d","o","r","u","p","a","d","o",".","r","u">>], [k |-> "$", s |-> <<>>]>>,
   headers |-> [n \in {"user-agent", "accept", "accept-language", "sec-fetch-site"} |->
                  CASE n = "user-agent" -> <<"Firefox/137.0">>
                    [] n = "accept" -> <<"*/*">>
                    [] n = "accept-language" -> <<"en-US,en;q=0.5">>
                    [] OTHER -> <<"cross-site">>],
   headersFn |-> [n \in {"origin", "referer"} |->
                  IF n = "origin" THEN <<"https://kwik.si">> ELSE <<"https://kwik.si/">>]],
  [pattern |-> <<[k |-> "lit", s |-> <<"k","r","u","s","s","d","o","m","i",".","c","o","m">>], [k |-> "$", s |-> <<>>]>>,
   headers |-> [n \in {"user-agent", "accept", "accept-language", "sec-fetch-site"} |->
                  CASE n = "user-agent" -> <<"Firefox/137.0">>
                    [] n = "accept" -> <<"*/*">>
                    [] n = "accept-language" -> <<"en-US,en;q=0.5">>
                    [] OTHER -> <<"cross-site">>],
   headersFn |-> [n \in {"origin", "referer"} |->
                  IF n = "origin" THEN <<"https://hls.krussdomi.com">>
                  ELSE <<"https://hls.krussdomi.com/">>]],
  [pattern |-> <<[k |-> "lit", s |-> <<"f","r","o","s","t","b","i","t","e","2","7",".","p","r","o">>], [k |-> "$", s |-> <<>>]>>,
   headers |-> [n \in {"user-agent", "accept", "accept-language", "sec-fetch-site",
                       "cache-control", "pragma"} |->
                  CASE n = "user-agent" -> <<"Firefox/137.0">>
                    [] n = "accept" -> <<"*/*">>
                    [] n = "accept-language" -> <<"en-US,en;q=0.5">>
                    [] n = "sec-fetch-site" -> <<"cross-site">>
                    [] OTHER -> <<"no-cache">>],
   headersFn |-> [n \in {"origin", "referer"} |->
                  IF n = "origin" THEN <<"https://megacloud.blog">>
                  ELSE <<"https://megacloud.blog/">>]],
  [pattern |-> <<>>,
   headers |-> [n \in {"user-agent", "accept", "sec-fetch-site"} |->
                  CASE n = "user-agent" -> <<"Firefox/137.0">>
                    [] n = "accept" -> <<"*/*">>
                    [] OTHER -> <<"cross-site">>],
   headersFn |-> EmptyMap]
>>

findTemplateForDomain(urlObj) ==
  LET hits == {i \in 1..Len(domainTemplates) :
                 RegexTest(domainTemplates[i].pattern, urlObj.hostname)}
  IN domainTemplates[CHOOSE i \in hits : \A j \in hits : i <= j]

(***************************************************************************)
(* State                                                                   *)
(***************************************************************************)
VARIABLES
  ex,           \* the exchanges: request, position in the handler, response
  cache,        \* the response cache
  headerCache,  \* hostname -> synthesized header map
  metrics,      \* the counters of utils/performance-monitor
  config,       \* process configuration (environment, config/constants)
  started,      \* number of exchanges received so far
  call          \* the last call of a helper made outside a request: [fn, ...]

vars == <<ex, cache, headerCache, metrics, config, started, call>>

\* number of exchanges a behaviour receives
MaxExchanges == 2

\* number of exchanges that may be in progress at once
NumEx == 2

Ex == 1..NumEx

MAX_REQUEST_SIZE == 2048

STREAM_SIZE_THRESHOLD == 1048576

NoCall == [fn |-> ""]

NoReq == [method |-> "", route |-> "", raw |-> <<>>, headers |-> EmptyMap]

NoUp ==
  [status |-> 0, ctype |-> <<>>, cenc |-> "", clen |-> -1, crange |-> <<>>,
   hasBody |-> FALSE, body |-> EmptyBody]

\* an Express response before any handler touched it
NewRes ==
  [status |-> 200, ctype |-> <<>>, cenc |-> "", crange |-> <<>>, xcache |-> "",
   acao |-> "", acceptRanges |-> "", xaccel |-> "", body |-> EmptyBody,
   sends |-> 0]

Idle ==
  [st |-> "idle", req |-> NoReq, url |-> <<>>, up |-> NoUp, br |-> "",
   uph |-> EmptyMap, res |-> NewRes, timer |-> FALSE, path |-> "",
   nFetch |-> 0, nSynth |-> 0, nReq |-> 0, nResp |-> 0,
   hit |-> FALSE, put |-> FALSE, dfail |-> FALSE, closed |-> FALSE]

\* res.status(code).json({error: {code, message, ...}, success: false, timestamp})
ErrorBody(code, message) ==
  [EmptyBody EXCEPT !.pl = <<[t |-> "error", n |-> message, v |-> <<>>]>>,
                    !.len = 64]

Send(res, body) == [res EXCEPT !.body = body, !.sends = @ + 1]

SendError(res, code, message) ==
  Send([res EXCEPT !.status = code, !.ctype = <<"application/json">>],
       ErrorBody(code, message))

\* res.end() with no body
End(res) == [res EXCEPT !.sends = @ + 1]


(***************************************************************************)
(* proxy-routes: the URL a route extracts from the request                 *)
(***************************************************************************)
\* /^https?:\/\//i
HasHttpScheme(url) ==
  \/ startsWith(toLowerCase(url), <<"h","t","t","p",":","/","/">>)
  \/ startsWith(toLowerCase(url), <<"h","t","t","p","s",":","/","/">>)

\* the characters with codes 32..126, in order ("bs": the backslash, "bt": the backtick)
Ascii ==
  <<" ","!","\"","#","$","%","&","'","(",")","*","+",",","-",".","/",
    "0","1","2","3","4","5","6","7","8","9",":",";","<","=",">","?",
    "@","A","B","C","D","E","F","G","H","I","J","K","L","M","N","O",
    "P","Q","R","S","T","U","V","W","X","Y","Z","[","bs","]","^","_",
    "bt","a","b","c","d","e","f","g","h","i","j","k","l","m","n","o",
    "p","q","r","s","t","u","v","w","x","y","z","{","|","}","~">>

\* Buffer.from(s, 'base64').toString('utf-8'): characters outside the
\* alphabet (the padding among them) are skipped, every four characters give
\* three bytes, and a rest of two or three characters gives one or two.
\* Bytes outside 32..126 are shown as "?".
Base64Decode(s) ==
  LET Alphabet == UpperChars \o LowerChars \o Digits \o <<"+", "/">>
      InAlphabet(c) == \E i \in 1..64 : Alphabet[i] = c
      Val(c) == (CHOOSE i \in 1..64 : Alphabet[i] = c) - 1
      Chr(code) == IF code \in 32..126 THEN Ascii[code - 31] ELSE "?"
      Byte(d, i, o) == ((Val(d[i + 1]) * 64 + Val(d[i + 2])) \div (2 ^ (4 - o))) % 256
      Bytes(d) ==
        [k \in 1..((6 * Len(d)) \div 8) |->
           Chr(Byte(d, (8 * (k - 1)) \div 6, (8 * (k - 1)) % 6))]
  IN Bytes(SelectSeq(s, InAlphabet))

\* the parameters Express hands to validateUrlParam.  The routes are tried in
\* the order of their registration: '/' (URL in ?url=), then '/:url(*)',
\* which matches every other path, "/base64/<E>" included, so that
\* '/base64/:encodedUrl', registered after it, never handles a request and
\* req.params.encodedUrl is never set by the router.  /debug, registered
\* before them, reads its URL from ?url=.
RouteParams(req) ==
  IF req.route \in {"query", "debug"}
  THEN [query |-> req.raw, url |-> <<>>, encodedUrl |-> <<>>]
  ELSE IF req.route = "path"
  THEN [query |-> <<>>, url |-> req.raw, encodedUrl |-> <<>>]
  ELSE [query |-> <<>>,
        url |-> <<"b","a","s","e","6","4","/">> \o req.raw,
        encodedUrl |-> <<>>]

\* the URL the route hands to validation (<<>>: none)
RouteUrl(req) ==
  LET Of(p) ==
        IF p.query # <<>> THEN p.query
        ELSE IF p.url # <<>>
        THEN IF HasHttpScheme(p.url) THEN p.url
             ELSE <<"h","t","t","p","s",":","/","/">> \o p.url
        ELSE IF p.encodedUrl # <<>> THEN Base64Decode(p.encodedUrl)
        ELSE <<>>
  IN Of(RouteParams(req))

(***************************************************************************)
(* Inputs: the requests clients send and the responses upstreams give.     *)
(***************************************************************************)
U_PNG   == <<"h","t","t","p","s",":","/","/","a",".","i","o","/","x",".","p","n","g">>
U_MP4   == <<"h","t","t","p","s",":","/","/","a",".","i","o","/","v",".","m","p","4">>
U_SEG   == <<"h","t","t","p","s",":","/","/","a",".","i","o","/","s","e","g","-","1","2",".","j","s">>
U_M3U8  == <<"h","t","t","p","s",":","/","/","a",".","i","o","/","p",".","m","3","u","8">>
U_AUDIO_M3U8 == <<"h","t","t","p","s",":","/","/","a",".","i","o","/","m","p","4","a",".","4","0",".","m","3","u","8">>
U_REL   == <<"x",".","p","n","g">>

NoHeaders == EmptyMap

RangeHeader(chars) == [n \in {"range"} |-> chars]

R_0_1 == <<"b","y","t","e","s","=","0","-","1">>

Request(method, url, headers) ==
  [method |-> method, route |-> "query", raw |-> url, headers |-> headers]

Requests ==
  {Request(m, u, h) :
     m \in {"GET", "POST"},
     u \in {U_PNG, U_MP4, U_SEG, U_M3U8, U_AUDIO_M3U8, U_REL},
     h \in {NoHeaders, RangeHeader(R_0_1)}}

Playlist ==
  <<Tag("#EXTM3U"), TagUri("#EXT-X-KEY", <<"/","k">>), Tag("#EXTINF"), Uri(<<"s","1",".","t","s">>)>>

Response(status, ctype, cenc, clen, body) ==
  [status |-> status, ctype |-> ctype, cenc |-> cenc, clen |-> clen,
   crange |-> <<>>, hasBody |-> TRUE, body |-> body]

TsBytes == BinBody("ts", 376, {0, 188})

\* a playlist served gzip-encoded
UP_GZ_PLAYLIST ==
  Response(200, <<"application/vnd.apple.mpegurl">>, "gzip", 40,
           Encoded("gzip", TextBody(Playlist), 40))

Upstreams ==
  { Response(200, <<"image/png">>, "", 3, BinBody("png", 3, {})),
    Response(200, <<"video/mp4">>, "", 50000000, BinBody("mp4", 50000000, {})),
    Response(200, <<>>, "", -1, BinBody("max", 10 * 1024 * 1024, {})),
    Response(200, <<>>, "", -1, BinBody("huge", 10 * 1024 * 1024 + 1, {})),
    UP_GZ_PLAYLIST,
    Response(200, <<"text/plain">>, "gzip", 5, BinBody("notgzip", 5, {})),
    Response(200, <<"application/javascript">>, "", 376, TsBytes),
    Response(201, <<"text/plain">>, "", 2, BinBody("created", 2, {})),
    [Response(206, <<"image/png">>, "", 2, BinBody("part", 2, {}))
       EXCEPT !.crange = <<"bytes", 0, 1, 3>>],
    Response(404, <<"application/json">>, "", 9, BinBody("notfound", 9, {})) }

Configs ==
  {[streaming |-> s, allowed |-> {}, maxUrlLength |-> MAX_REQUEST_SIZE] : s \in BOOLEAN}

\* Range header values
R_1_2   == <<"b","y","t","e","s","=","1","-","2">>
R_2_1   == <<"b","y","t","e","s","=","2","-","1">>
R_0_3   == <<"b","y","t","e","s","=","0","-","3">>
R_1_    == <<"b","y","t","e","s","=","1","-">>
R_5_    == <<"b","y","t","e","s","=","5","-">>
R_ITEMS == <<"i","t","e","m","s","=","0","-","1">>
R_LIST  == <<"b","y","t","e","s","=","0","-","1",",","2","-","2">>

RangeValues == {R_0_1, R_1_2, R_2_1, R_0_3, R_1_, R_5_, R_ITEMS, R_LIST}

RangeRequests ==
  {Request("GET", U_PNG, h) : h \in {NoHeaders} \cup {RangeHeader(r) : r \in RangeValues}}
  \cup {Request("GET", U_MP4, NoHeaders)}

RangeUpstreams ==
  { Response(200, <<"image/png">>, "", 3, BinBody("png", 3, {})),
    Response(200, <<"text/plain">>, "", 2, BinBody("doc", 2, {})) }

\* the URLs of the fast path, one for each of its tests
U_TS      == <<"h","t","t","p","s",":","/","/","a",".","i","o","/","a",".","t","s">>
U_MP3     == <<"h","t","t","p","s",":","/","/","a",".","i","o","/","a",".","m","p","3">>
U_M4S     == <<"h","t","t","p","s",":","/","/","a",".","i","o","/","a",".","m","4","s">>
U_SEGMENT == <<"h","t","t","p","s",":","/","/","a",".","i","o","/","s","e","g","m","e","n","t","-","1">>

StreamRequests ==
  {Request("GET", u, NoHeaders) :
     u \in {U_PNG, U_TS, U_M3U8, U_MP4, U_MP3, U_M4S, U_SEGMENT, U_SEG}}

\* an audio segment served gzip-encoded
UP_GZ_AUDIO ==
  Response(200, <<"audio/mp4">>, "gzip", 30, Encoded("gzip", BinBody("m4a", 60, {}), 30))

StreamUpstreams ==
  { Response(200, <<"image/png">>, "", 3, BinBody("png", 3, {})),
    UP_GZ_PLAYLIST,
    UP_GZ_AUDIO,
    Response(404, <<"application/json">>, "", 9, BinBody("notfound", 9, {})) }

\* URLs for the admission tests: of 40 characters, the maximum length
\* configured for them, and of 41, with a port that is no number, on another host, with a single
\* slash after the scheme, and https://a.io/x.png in base64
U_MAX      == <<"h","t","t","p","s",":","/","/","a",".","i","o","/">> \o [i \in 1..27 |-> "a"]
U_LONG     == <<"h","t","t","p","s",":","/","/","a",".","i","o","/">> \o [i \in 1..28 |-> "a"]
U_BADPORT  == <<"h","t","t","p","s",":","/","/","a",".","i","o",":","x","/">>
U_OTHER    == <<"h","t","t","p","s",":","/","/","b",".","i","o","/","x",".","p","n","g">>
U_ONESLASH == <<"h","t","t","p",":","/","b",".","i","o","/","x",".","p","n","g">>
E_PNG      == <<"a","H","R","0","c","H","M","6","L","y","9","h","L","m","l","v","L","3","g","u","c","G","5","n">>
P_PNG      == <<"a",".","i","o","/","x",".","p","n","g">>

A_IO == <<"a",".","i","o">>

RequestVia(route, raw) ==
  [method |-> "GET", route |-> route, raw |-> raw, headers |-> NoHeaders]

AdmitRequests ==
  {RequestVia("query", u) :
     u \in {U_PNG, <<>>, U_MAX, U_LONG, U_BADPORT, U_OTHER, U_ONESLASH, U_REL}}
  \cup {RequestVia("path", P_PNG), RequestVia("base64", E_PNG)}

DebugRequests == {RequestVia("debug", u) : u \in {<<>>, U_OTHER, U_BADPORT}}

AdmitUpstreams ==
  { Response(200, <<"image/png">>, "", 3, BinBody("png", 3, {})),
    Response(200, <<"video/mp4">>, "", 50000000, BinBody("mp4", 50000000, {})) }

AdmitConfigs ==
  {[streaming |-> s, allowed |-> a, maxUrlLength |-> 40] :
     s \in BOOLEAN, a \in {{}, {A_IO}}}

\* requests whose headers the proxy has to drop, replace or forward: to a host
\* of the default template and to one whose template carries cache-control
U_FROST == <<"h","t","t","p","s",":","/","/","f","r","o","s","t","b","i","t","e","2","7",".","p","r","o","/","x",".","p","n","g">>

HopHeaders ==
  [n \in {"host", "connection", "content-length", "forwarded", "x-forwarded-for",
          "x-forwarded-host", "x-forwarded-proto"} |->
     CASE n = "host" -> <<"proxy.local">>
       [] n = "connection" -> <<"keep-alive">>
       [] n = "content-length" -> <<"0">>
       [] n = "forwarded" -> <<"for=10.0.0.1">>
       [] n = "x-forwarded-for" -> <<"10.0.0.1">>
       [] n = "x-forwarded-host" -> <<"proxy.local">>
       [] OTHER -> <<"https">>]

PortHeader == [n \in {"x-forwarded-port"} |-> <<"443">>]

NoCacheHeaders == [n \in {"cache-control", "pragma"} |-> <<"no-cache">>]

HeaderSets ==
  {Assign(Assign(a, b), Assign(c, d)) :
     a \in {NoHeaders, HopHeaders}, b \in {NoHeaders, PortHeader},
     c \in {NoHeaders, NoCacheHeaders}, d \in {NoHeaders, RangeHeader(R_0_1)}}

HeaderRequests ==
  {Request("GET", u, h) : u \in {U_PNG, U_MP4, U_FROST}, h \in HeaderSets}

\* playlists without the #EXTM3U tag, with it in lower case, and responses
\* that carry them: plain, gzip-encoded, and declared gzip without being so
Headless == <<Tag("#EXTINF"), Uri(<<"s","1",".","t","s">>)>>

LowerCasePlaylist == <<Tag("#extm3u"), Tag("#EXTINF"), Uri(<<"s","1",".","t","s">>)>>

PlaylistRequests ==
  {Request(m, u, NoHeaders) : m \in {"GET", "POST"}, u \in {U_M3U8, U_PNG, U_MP4}}

\* a gzip-encoded playlist served as 206 Partial Content
PartialPlaylist ==
  [Response(206, <<"application/vnd.apple.mpegurl">>, "gzip", 40,
            Encoded("gzip", TextBody(Playlist), 40))
     EXCEPT !.crange = <<"bytes", 0, 39, 80>>]

\* a WebVTT thumbnail track with one cue
Subtitles ==
  <<Tag("WEBVTT"),
    Uri(<<"0","0",":","0","1"," ","-","-",">"," ","0","0",":","0","2">>),
    Uri(<<"t","/","1",".","w","e","b","p">>)>>

PlaylistUpstreams ==
  { PartialPlaylist,
    Response(200, <<"text/vtt">>, "", 32, TextBody(Subtitles)),
    Response(200, <<"application/vnd.apple.mpegurl">>, "", 16, TextBody(Headless)),
    Response(200, <<"application/vnd.apple.mpegurl">>, "gzip", 12,
             Encoded("gzip", TextBody(Headless), 12)),
    Response(200, <<"application/vnd.apple.mpegurl">>, "gzip", 16, TextBody(Headless)),
    Response(200, <<"text/plain">>, "", 16, TextBody(Headless)),
    Response(200, <<"application/x-mpegurl">>, "", 24, TextBody(LowerCasePlaylist)),
    Response(200, <<"application/vnd.apple.mpegurl">>, "", 40, TextBody(Playlist)) }

AllRequests ==
  Requests \cup RangeRequests \cup StreamRequests \cup AdmitRequests \cup DebugRequests
    \cup HeaderRequests

AllConfigs == Configs \cup AdmitConfigs


(***************************************************************************)
(* What the handlers ask about a target URL (each a function of the URL    *)
(* text alone), and the table of the answers for the URLs of the inputs.   *)
(* The handlers read the table: F(url).streamUrl is StreamUrl(url).        *)
(***************************************************************************)
\* the URL part of the fast-path test of proxyRequest
StreamUrl(url) ==
  \/ endsWith(url, <<".","t","s">>)
  \/ endsWith(url, <<".","m","3","u","8">>)
  \/ endsWith(url, <<".","m","p","4">>)
  \/ endsWith(url, <<".","m","p","3">>)
  \/ endsWith(url, <<".","m","4","s">>)
  \/ includes(url, <<"s","e","g","m","e","n","t","-">>)
  \/ isDisguisedSegment(url)

\* the URL part of isAudioSegment
AudioUrl(url) ==
  \/ includes(url, <<".","a","a","c">>)
  \/ includes(toLowerCase(url), <<"m","p","4","a",".","4","0">>)

\* url.toLowerCase().endsWith('.m3u8')
M3u8Ext(url) == endsWith(toLowerCase(url), <<".","m","3","u","8">>)

\* url.endsWith('.ts')
TsExt(url) == endsWith(url, <<".","t","s">>)

\* needsProcessing of streamProxyRequest
NeedsProcessing(url) ==
  \/ endsWith(toLowerCase(url), <<".","m","3","u","8">>)
  \/ endsWith(toLowerCase(url), <<".","v","t","t">>)
  \/ endsWith(toLowerCase(url), <<".","s","r","t">>)

\* the target of the subtitle file given to processVttContent on its own
U_VTT == <<"h","t","t","p","s",":","/","/","a",".","i","o","/","v","/","s",".","v","t","t">>

\* a playlist URL with its extension in upper case
U_M3U8_UPPER == <<"h","t","t","p","s",":","/","/","a",".","i","o","/","P",".","M","3","U","8">>

UrlUniverse == {RouteUrl(r) : r \in AllRequests} \cup {U_VTT, U_M3U8_UPPER}

\* PROXY.MAX_REQUEST_SIZE and the allow-list in force
AdmissionSettings ==
  {[maxUrlLength |-> c.maxUrlLength, allowed |-> c.allowed] : c \in AllConfigs}

UrlFacts ==
  {[url             |-> u,
    urlObj          |-> ParseUrl(u),
    validation      |-> {<<a, validateUrl(u, a.maxUrlLength, a.allowed)>> :
                           a \in AdmissionSettings},
    streamUrl       |-> StreamUrl(u),
    disguised       |-> isDisguisedSegment(u),
    m3u8Playlist    |-> isM3u8Playlist(u),
    m3u8Ext         |-> M3u8Ext(u),
    audioUrl        |-> AudioUrl(u),
    tsExt           |-> TsExt(u),
    needsProcessing |-> NeedsProcessing(u),
    mimeType        |-> getMimeType(u)] : u \in UrlUniverse}

F(url) == CHOOSE f \in UrlFacts : f.url = url

Validation(url, cfg) ==
  (CHOOSE p \in F(url).validation :
     p[1] = [maxUrlLength |-> cfg.maxUrlLength, allowed |-> cfg.allowed])[2]

HostTemplates ==
  {<<f.urlObj.hostname, findTemplateForDomain(f.urlObj)>> :
     f \in {g \in UrlFacts : g.urlObj.ok}}

TemplateOf(hostname) == (CHOOSE p \in HostTemplates : p[1] = hostname)[2]

\* ua: the index Math.random() draws.  Returns the headers handed to the
\* caller and the header cache afterwards.
generateHeadersForUrl(hc, urlObj, ua) ==
  LET Store(cacheKey, h3) ==
        [headers |-> h3,
         cache |-> [k \in (DOMAIN hc) \cup {cacheKey} |->
                      IF k = cacheKey THEN h3 ELSE hc[k]]]
      Fill(cacheKey, template) ==
        Store(cacheKey,
              Without(Assign(Assign(template.headers,
                                    [n \in {"user-agent"} |-> userAgents[ua]]),
                             template.headersFn),
                      {"cache-control", "pragma"}))
  IN IF urlObj.hostname \in DOMAIN hc
     THEN [headers |-> hc[urlObj.hostname], cache |-> hc]
     ELSE Fill(urlObj.hostname, TemplateOf(urlObj.hostname))

(***************************************************************************)
(* utils/helpers: transport stream sniffer and content type arbiter        *)
(***************************************************************************)
\* the sniffer with one sync byte taken as enough
detectTransportStream_OneSync(b) ==
  IF b.len < 188 THEN FALSE
  ELSE IF ~ByteIs47(b, 0) THEN FALSE
  ELSE Cardinality({i \in 1..5 : i * 188 < b.len /\ ByteIs47(b, i * 188)}) + 1 >= 1

detectTransportStream(b) ==
  IF b.len < 188 THEN FALSE
  ELSE IF ~ByteIs47(b, 0) THEN FALSE
  ELSE Cardinality({i \in 1..5 : i * 188 < b.len /\ ByteIs47(b, i * 188)}) + 1 >= 2

\* the arbiter with the extension rule placed before the sniffer
determineContentType_ExtensionFirst(b, originalContentType, url) ==
  IF /\ F(url).m3u8Ext
     /\ \/ originalContentType = <<>>
        \/ ~CtIncludes(originalContentType, "application/vnd.apple.mpegurl")
  THEN <<"application/vnd.apple.mpegurl">>
  ELSE IF detectTransportStream(b) THEN <<"video/mp2t">>
  ELSE IF originalContentType # <<>> THEN originalContentType
  ELSE <<"application/octet-stream">>

determineContentType(b, originalContentType, url) ==
  IF detectTransportStream(b) THEN <<"video/mp2t">>
  ELSE IF /\ F(url).m3u8Ext
          /\ \/ originalContentType = <<>>
             \/ ~CtIncludes(originalContentType, "application/vnd.apple.mpegurl")
       THEN <<"application/vnd.apple.mpegurl">>
  ELSE IF originalContentType # <<>> THEN originalContentType
  ELSE <<"application/octet-stream">>


validateUrlParam(req, cfg) ==
  LET Checked(url, validation) ==
        [ok |-> validation.valid, url |-> url, reason |-> validation.reason]
      Routed(url) ==
        IF url = <<>> THEN [ok |-> FALSE, url |-> url, reason |-> "Missing URL parameter"]
        ELSE Checked(url, Validation(url, cfg))
  IN Routed(RouteUrl(req))

(***************************************************************************)
(* proxy-routes: proxyRequest, up to the upstream fetch                    *)
(***************************************************************************)
\* range.match(/bytes=(\d+)-(\d+)?/): the leftmost match
RangeMatchAt(range, i) ==
  /\ HasAt(range, i, <<"b","y","t","e","s","=">>)
  /\ DigitRun(range, i + 6) >= 1
  /\ HasAt(range, i + 6 + DigitRun(range, i + 6), <<"-">>)

RangeMatch(range) ==
  LET Groups(i, n1, n2) ==
        [m |-> TRUE,
         g1 |-> Sub(range, i + 6, i + 5 + n1),
         g2 |-> Sub(range, i + 7 + n1, i + 6 + n1 + n2)]
      Second(i, n1) == Groups(i, n1, DigitRun(range, i + 7 + n1))
      First(i) == Second(i, DigitRun(range, i + 6))
  IN IF \E i \in 1..Len(range) : RangeMatchAt(range, i)
     THEN First(CHOOSE k \in 1..Len(range) :
                  RangeMatchAt(range, k) /\ \A j \in 1..(k - 1) : ~RangeMatchAt(range, j))
     ELSE [m |-> FALSE, g1 |-> <<>>, g2 |-> <<>>]

\* Buffer.slice called with end in place of end + 1
SliceEnd_Exclusive(end) == end

\* the last index of a cached range: end + 1 is what Buffer.slice receives
SliceEnd(end) == end + 1

\* the range check without the comparison of start and end
RangeValid_NoOrder(start, end, size) == start >= 0 /\ end < size

\* "if (start >= 0 && end < cachedItem.data.length && start <= end)"
RangeValid(start, end, size) == start >= 0 /\ end < size /\ start <= end

\* the response to a cache hit (the body of "if (cachedItem)")
CacheHitResponse(res, data, range, url) ==
  LET Slice(r0, start, end) ==
        IF RangeValid(start, end, data.len)
        THEN Send([r0 EXCEPT !.crange = <<"bytes", start, end, data.len>>,
                             !.status = 206],
                  BufferSlice(data, start, SliceEnd(end)))
        ELSE Send(r0, data)
      Ranged(r0, match) ==
        IF range # <<>> /\ match.m
        THEN Slice(r0, parseInt(match.g1),
                   IF match.g2 # <<>> THEN parseInt(match.g2) ELSE data.len - 1)
        ELSE Send(r0, data)
  IN Ranged([res EXCEPT !.ctype = determineContentType(data, <<>>, url),
                        !.xcache = "HIT", !.acao = "*"],
            RangeMatch(range))

excludeHeaders ==
  {"host", "connection", "content-length", "forwarded", "x-forwarded-for",
   "x-forwarded-host", "x-forwarded-proto"}

\* the headers of the upstream request with Range treated as one of the
\* headers that are not forwarded
UpstreamHeaders_RangeDropped(req, urlObj, domainHeaders) ==
  Assign(Assign([n \in {k \in DOMAIN req.headers :
                          k \notin excludeHeaders \cup {"range"} /\ req.headers[k] # <<>>} |->
                   req.headers[n]],
                domainHeaders),
         [n \in {"host"} |-> urlObj.host])

\* the headers of the upstream request
UpstreamHeaders(req, urlObj, domainHeaders) ==
  LET WithRange(h2) ==
        IF Lookup(req.headers, "range") # <<>>
        THEN Assign(h2, [n \in {"range"} |-> req.headers["range"]])
        ELSE h2
  IN WithRange(Assign(Assign([n \in {k \in DOMAIN req.headers :
                                       k \notin excludeHeaders /\ req.headers[k] # <<>>} |->
                                req.headers[n]],
                             domainHeaders),
                      [n \in {"host"} |-> urlObj.host]))

\* the fast-path test with the .ts suffix only
UseStreamPath_TsOnly(cfg, method, url) ==
  cfg.streaming /\ method = "GET" /\ F(url).tsExt

\* the test that sends a GET to the stream path before any fetch
UseStreamPath(cfg, method, url) ==
  /\ cfg.streaming
  /\ method = "GET"
  /\ F(url).streamUrl

\* streamProxyRequest up to its fetch: a request is recorded, a fetch issued
EnterStream(x) ==
  [x EXCEPT !.st = "sfetch", !.timer = TRUE, !.nReq = @ + 1, !.nFetch = @ + 1,
            !.path = IF x.path = "" THEN "stream" ELSE "handoff"]

\* the caller's use of the returned map with the arguments of Object.assign
\* exchanged: the client's headers are written into it
DomainHeadersAfter_AssignSwapped(req, urlObj, domainHeaders) ==
  Assign(domainHeaders,
         [n \in {k \in DOMAIN req.headers :
                   k \notin excludeHeaders /\ req.headers[k] # <<>>} |-> req.headers[n]])

\* the map generateHeadersForUrl returned, after proxyRequest is through with
\* it: Object.assign(headers, domainHeaders) reads it, and host and range are
\* set on headers
DomainHeadersAfter(req, urlObj, domainHeaders) == domainHeaders

\* proxyRequest from the header set-up to the fetch (what follows the cache
\* lookup): the exchange, the header cache and the metrics afterwards.  For a
\* hostname not yet in the header cache generateHeadersForUrl returns the very
\* object it stored, so what the caller does to it is done to the stored map.
AfterLookup(x1, req, cfg, hc, ua) ==
  LET misses == IF req.method = "GET" THEN 1 ELSE 0
      Fetch(x2, cacheAfter) ==
        IF UseStreamPath(cfg, req.method, x1.url)
        THEN [x |-> EnterStream(x2),
              hc |-> cacheAfter, reqs |-> 2, resps |-> 0, hits |-> 0, misses |-> misses]
        ELSE [x |-> [x2 EXCEPT !.st = "fetch", !.timer = TRUE, !.nFetch = 1,
                               !.path = "buffered"],
              hc |-> cacheAfter, reqs |-> 1, resps |-> 0, hits |-> 0, misses |-> misses]
      Synth(urlObj, gen) ==
        Fetch([x1 EXCEPT !.nSynth = 1,
                         !.uph = UpstreamHeaders(req, urlObj, gen.headers)],
              IF urlObj.hostname \in DOMAIN hc THEN gen.cache
              ELSE [gen.cache EXCEPT ![urlObj.hostname] =
                      DomainHeadersAfter(req, urlObj, gen.headers)])
      Parsed(urlObj) ==
        IF ~urlObj.ok
        THEN [x |-> [x1 EXCEPT !.st = "done", !.nResp = 1, !.path = "error",
                               !.res = SendError(x1.res, 500, "Invalid URL")],
              hc |-> hc, reqs |-> 1, resps |-> 1, hits |-> 0, misses |-> misses]
        ELSE Synth(urlObj, generateHeadersForUrl(hc, urlObj, ua))
  IN Parsed(F(x1.url).urlObj)

\* proxyRequest with the header synthesis placed before the cache lookup
ReceiveResult_SynthFirst(req, cfg, c, hc, ua) ==
  LET Hit(v, a, item) ==
        [x |-> [a.x EXCEPT !.st = "done", !.hit = TRUE, !.path = "cache", !.nFetch = 0,
                           !.timer = FALSE, !.nReq = 1, !.nResp = 1,
                           !.res = CacheHitResponse(NewRes, item.data,
                                                    Lookup(req.headers, "range"), v.url)],
         hc |-> a.hc, reqs |-> 1, resps |-> 1, hits |-> 1, misses |-> 0]
      Looked(v, key, a) ==
        IF req.method = "GET" /\ CacheHas(c, key) THEN Hit(v, a, getCacheItem(c, key))
        ELSE a
      Admitted(v, x0) ==
        IF ~v.ok
        THEN [x |-> [x0 EXCEPT !.st = "done", !.res = SendError(NewRes, 400, v.reason)],
              hc |-> hc, reqs |-> 0, resps |-> 0, hits |-> 0, misses |-> 0]
        ELSE Looked(v, generateCacheKey(v.url, req.headers),
                    AfterLookup([x0 EXCEPT !.url = v.url, !.nReq = 1], req, cfg, hc, ua))
  IN Admitted(validateUrlParam(req, cfg), [Idle EXCEPT !.req = req])

\* proxyRequest answering a GET from the newest cache entry, whatever its key
ReceiveResult_AnyEntry(req, cfg, c, hc, ua) ==
  LET Hit(v, x0, item) ==
        [x |-> [x0 EXCEPT !.url = v.url, !.nReq = 1, !.nResp = 1, !.st = "done",
                          !.hit = TRUE, !.path = "cache",
                          !.res = CacheHitResponse(NewRes, item.data,
                                                   Lookup(req.headers, "range"), v.url)],
         hc |-> hc, reqs |-> 1, resps |-> 1, hits |-> 1, misses |-> 0]
      Looked(v, x0) ==
        IF req.method = "GET" /\ c # <<>> THEN Hit(v, x0, c[Len(c)])
        ELSE AfterLookup([x0 EXCEPT !.url = v.url, !.nReq = 1,
                                    !.res.xcache = IF req.method = "GET" THEN "MISS" ELSE ""],
                         req, cfg, hc, ua)
      Admitted(v, x0) ==
        IF ~v.ok
        THEN [x |-> [x0 EXCEPT !.st = "done", !.res = SendError(NewRes, 400, v.reason)],
              hc |-> hc, reqs |-> 0, resps |-> 0, hits |-> 0, misses |-> 0]
        ELSE Looked(v, x0)
  IN Admitted(validateUrlParam(req, cfg), [Idle EXCEPT !.req = req])

\* the exchange, the header cache and the metrics after validateUrlParam and
\* the synchronous part of proxyRequest
ReceiveResult(req, cfg, c, hc, ua) ==
  LET Hit(v, x0, item) ==
        [x |-> [x0 EXCEPT !.url = v.url, !.nReq = 1, !.nResp = 1, !.st = "done",
                          !.hit = TRUE, !.path = "cache",
                          !.res = CacheHitResponse(NewRes, item.data,
                                                   Lookup(req.headers, "range"), v.url)],
         hc |-> hc, reqs |-> 1, resps |-> 1, hits |-> 1, misses |-> 0]
      Looked(v, x0, key) ==
        IF req.method = "GET" /\ CacheHas(c, key) THEN Hit(v, x0, getCacheItem(c, key))
        ELSE AfterLookup([x0 EXCEPT !.url = v.url, !.nReq = 1,
                                    !.res.xcache = IF req.method = "GET" THEN "MISS" ELSE ""],
                         req, cfg, hc, ua)
      Admitted(v, x0) ==
        IF ~v.ok
        THEN [x |-> [x0 EXCEPT !.st = "done", !.res = SendError(NewRes, 400, v.reason)],
              hc |-> hc, reqs |-> 0, resps |-> 0, hits |-> 0, misses |-> 0]
        ELSE Looked(v, x0, generateCacheKey(v.url, req.headers))
  IN Admitted(validateUrlParam(req, cfg), [Idle EXCEPT !.req = req])

\* the indices Math.random() may draw when the request reaches the synthesis
\* of headers for a hostname not yet in the header cache
UaDraws(req, hc) ==
  LET Of(urlObj) ==
        IF urlObj.ok /\ urlObj.hostname \notin DOMAIN hc THEN 1..Len(userAgents) ELSE {1}
  IN Of(F(RouteUrl(req)).urlObj)

Receive(e, reqs) ==
  /\ ex[e].st \in {"idle", "done"}
  /\ started < MaxExchanges
  /\ \E req \in reqs : \E ua \in UaDraws(req, headerCache) :
       \E r \in {ReceiveResult(req, config, cache, headerCache, ua)} :
         /\ ex' = [ex EXCEPT ![e] = r.x]
         /\ headerCache' = r.hc
         /\ metrics' = [metrics EXCEPT !.requests = @ + r.reqs,
                                       !.responses = @ + r.resps,
                                       !.cacheHits = @ + r.hits,
                                       !.cacheMisses = @ + r.misses]
  /\ started' = started + 1
  /\ UNCHANGED <<cache, config, call>>

(***************************************************************************)
(* proxy-routes: proxyRequest once the upstream response headers arrived   *)
(***************************************************************************)
isAudioSegment(up, url) ==
  \/ CtIncludes(up.ctype, "audio/mp4")
  \/ CtIncludes(up.ctype, "audio/aac")
  \/ F(url).audioUrl

isM3u8Content(up, url) ==
  \/ F(url).m3u8Playlist
  \/ CtIncludes(up.ctype, "application/vnd.apple.mpegurl")
  \/ CtIncludes(up.ctype, "application/x-mpegurl")
  \/ F(url).m3u8Ext

\* does a buffered response go to the stream path after all
LargeResponse(cfg, method, up) ==
  /\ cfg.streaming
  /\ up.clen >= 0
  /\ up.clen > STREAM_SIZE_THRESHOLD
  /\ method = "GET"

\* the upstream headers copied to the response by the buffered path
ForwardHeaders(res, up, url) ==
  LET Copy(audio) ==
        [res EXCEPT
           !.ctype  = IF up.ctype # <<>> THEN up.ctype ELSE @,
           !.cenc   = IF up.cenc # "" /\ audio THEN up.cenc ELSE @,
           !.crange = IF up.crange # <<>> THEN up.crange ELSE @,
           !.acceptRanges = IF @ = "" /\ (audio \/ F(url).tsExt) THEN "bytes" ELSE @,
           !.acao   = "*"]
  IN Copy(isAudioSegment(up, url))

\* the branches without the one for 206
BufferedBranch_NoPartial(up, url) ==
  IF up.status >= 400 THEN "err"
  ELSE IF isAudioSegment(up, url) /\ up.status = 200 THEN "audio"
  ELSE IF isM3u8Content(up, url) /\ up.status = 200 THEN "m3u8"
  ELSE IF CtIncludes(up.ctype, "text/vtt") /\ up.status = 200 THEN "vtt"
  ELSE IF up.hasBody THEN "general"
  ELSE "empty"

\* the branch of proxyRequest that handles the response
BufferedBranch(up, url) ==
  IF up.status >= 400 THEN "err"
  ELSE IF up.status = 206 THEN "206"
  ELSE IF isAudioSegment(up, url) /\ up.status = 200 THEN "audio"
  ELSE IF isM3u8Content(up, url) /\ up.status = 200 THEN "m3u8"
  ELSE IF CtIncludes(up.ctype, "text/vtt") /\ up.status = 200 THEN "vtt"
  ELSE IF up.hasBody THEN "general"
  ELSE "empty"

BufferedAfterFetch(x, up, cfg) ==
  LET Handle(x1, br, r) ==
        IF br = "empty"
        THEN [x1 EXCEPT !.st = "done", !.br = br, !.nResp = @ + 1,
                        !.res = End([r EXCEPT !.status = up.status])]
        ELSE [x1 EXCEPT !.st = "body", !.br = br, !.res = r]
      Cleared(x1) ==
        IF LargeResponse(cfg, x.req.method, up) THEN EnterStream(x1)
        ELSE Handle(x1, BufferedBranch(up, x.url), ForwardHeaders(x.res, up, x.url))
  IN Cleared([x EXCEPT !.timer = FALSE, !.up = up])

(***************************************************************************)
(* proxy-routes: streamProxyRequest once the response headers arrived      *)
(***************************************************************************)
isCompressed(up) ==
  up.cenc # "" /\ EncodingNorm(up.cenc) \in {"gzip", "br", "deflate", "zstd"}

\* the upstream headers copied to the response by the stream path
StreamHeaders(res, up) ==
  [res EXCEPT !.ctype  = IF up.ctype # <<>> THEN up.ctype ELSE @,
              !.cenc   = IF up.cenc # "" THEN up.cenc ELSE @,
              !.crange = IF up.crange # <<>> THEN up.crange ELSE @,
              !.acao   = "*",
              !.status = up.status]

StreamBranch(up, url) ==
  IF up.status >= 400 THEN "s-err"
  ELSE IF isCompressed(up) /\ F(url).needsProcessing THEN "s1"
  ELSE IF F(url).m3u8Playlist \/ CtIncludes(up.ctype, "text/vtt") THEN "s2"
  ELSE IF isCompressed(up) THEN "s3"
  ELSE IF up.hasBody THEN "s4"
  ELSE "sfb"

StreamAfterFetch(x, up) ==
  LET Handle(br, r) ==
        IF br = "s-err"
        THEN [x EXCEPT !.timer = FALSE, !.up = up, !.br = br, !.st = "body",
                       !.res.status = up.status]
        ELSE IF br = "s4"
        THEN [x EXCEPT !.timer = FALSE, !.up = up, !.br = br, !.st = "pipe",
                       !.res = [r EXCEPT !.xaccel = "no"]]
        ELSE [x EXCEPT !.timer = FALSE, !.up = up, !.br = br, !.st = "body", !.res = r]
  IN Handle(StreamBranch(up, x.url), StreamHeaders(x.res, up))

\* the upstream answers: fetch() resolves
FetchResolve(e, ups) ==
  /\ ex[e].st \in {"fetch", "sfetch"}
  /\ \E up \in ups :
       ex' = [ex EXCEPT ![e] =
                IF ex[e].st = "fetch"
                THEN BufferedAfterFetch(ex[e], up, config)
                ELSE StreamAfterFetch(ex[e], up)]
  /\ metrics' =
       [metrics EXCEPT
          !.requests  = @ + (IF ex'[e].nReq > ex[e].nReq THEN 1 ELSE 0),
          !.responses = @ + (IF ex'[e].nResp > ex[e].nResp THEN 1 ELSE 0)]
  /\ UNCHANGED <<cache, headerCache, config, started, call>>

\* fetch() rejects: a network fault (AbortError is Timeout's)
FetchErrorResult(x) ==
  [x EXCEPT !.st = "done", !.timer = FALSE, !.nResp = @ + 1,
            !.res = SendError(x.res, 500, "Failed to proxy request")]

FetchReject(e) ==
  /\ ex[e].st \in {"fetch", "sfetch"}
  /\ ex' = [ex EXCEPT ![e] = FetchErrorResult(ex[e])]
  /\ metrics' = [metrics EXCEPT !.responses = @ + 1]
  /\ UNCHANGED <<cache, headerCache, config, started, call>>

\* the request timeout elapses while the fetch is pending: the signal
\* aborts the fetch, which rejects with AbortError
\* the timeout reported as any other failure of the fetch
TimeoutResult_As500(x) ==
  [x EXCEPT !.st = "done", !.timer = FALSE, !.nResp = @ + 1,
            !.res = SendError(x.res, 500, "Failed to proxy request")]

TimeoutResult(x) ==
  [x EXCEPT !.st = "done", !.timer = FALSE, !.nResp = @ + 1,
            !.res = SendError(x.res, 504, "Request timed out after REQUEST_TIMEOUT ms")]

Timeout(e) ==
  /\ ex[e].st \in {"fetch", "sfetch"}
  /\ ex[e].timer
  /\ ex' = [ex EXCEPT ![e] = TimeoutResult(ex[e])]
  /\ metrics' = [metrics EXCEPT !.responses = @ + 1]
  /\ UNCHANGED <<cache, headerCache, config, started, call>>


(***************************************************************************)
(* utils/helpers: processVttContent.  The text is a sequence of lines; the *)
(* image pattern /\b[^\s"']+?\.(jpg|jpeg|png|gif|webp)\b/gi cannot match     *)
(* across a line end, so it is matched on each line.                       *)
(***************************************************************************)
\* \w
IsWordChar(c) == IsAlpha(c) \/ IsDigit(c) \/ c = "_"

\* \b at position i of s, between s[i-1] and s[i]
WordBoundary(s, i) ==
  (i > 1 /\ IsWordChar(s[i - 1])) # (i <= Len(s) /\ IsWordChar(s[i]))

\* the alternation (jpg|jpeg|png|gif|webp), in its order
ImageExtensions ==
  << <<"j","p","g">>, <<"j","p","e","g">>, <<"p","n","g">>, <<"g","i","f">>, <<"w","e","b","p">> >>

\* \.(jpg|jpeg|png|gif|webp)\b at position j of s: the position after the
\* match, 0 when it does not match there
ImageExtEnd(s, j) ==
  LET After(k) == j + 1 + Len(ImageExtensions[k])
      Hit(k) == /\ After(k) - 1 <= Len(s)
                /\ \A m \in 1..Len(ImageExtensions[k]) :
                     LowerChar(s[j + m]) = ImageExtensions[k][m]
                /\ WordBoundary(s, After(k))
      First(hits) == IF hits = {} THEN 0
                     ELSE After(CHOOSE k \in hits : \A m \in hits : k <= m)
  IN IF s[j] # "." THEN 0 ELSE First({k \in 1..Len(ImageExtensions) : Hit(k)})

\* [^\s"']+? having consumed s up to position j - 1: the position after the
\* shortest match, 0 when there is none
RECURSIVE ImageMatchEnd(_, _)
ImageMatchEnd(s, j) ==
  IF j > Len(s) THEN 0
  ELSE IF ImageExtEnd(s, j) # 0 THEN ImageExtEnd(s, j)
  ELSE IF s[j] \notin {" ", "\"", "'"} THEN ImageMatchEnd(s, j + 1)
  ELSE 0

\* content.match(imageRegex) from position i of s on: the matches, in order
RECURSIVE ImageMatches(_, _)
ImageMatches(s, i) ==
  LET Found(e) ==
        IF e # 0 THEN <<Sub(s, i, e - 1)>> \o ImageMatches(s, e)
        ELSE ImageMatches(s, i + 1)
  IN IF i > Len(s) THEN <<>>
     ELSE Found(IF WordBoundary(s, i) /\ s[i] \notin {" ", "\"", "'"}
                THEN ImageMatchEnd(s, i + 1) ELSE 0)

\* s.replace(new RegExp(escapeRegExp(pat), 'g'), r) from position i of s on
RECURSIVE ReplaceAll(_, _, _, _)
ReplaceAll(s, i, pat, r) ==
  IF i > Len(s) THEN <<>>
  ELSE IF HasAt(s, i, pat) THEN r \o ReplaceAll(s, i + Len(pat), pat, r)
  ELSE <<s[i]>> \o ReplaceAll(s, i + 1, pat, r)

\* the loop over uniqueUrls: urls are the matches still to process
RECURSIVE RewriteImages(_, _, _, _, _)
RewriteImages(lines, urls, proxyBaseUrl, targetUrl, urlParamName) ==
  LET Absolute(imageUrl, t) ==
        IF startsWith(imageUrl, <<"h","t","t","p",":","/","/">>)
           \/ startsWith(imageUrl, <<"h","t","t","p","s",":","/","/">>) THEN imageUrl
        ELSE IF startsWith(imageUrl, <<"/","/">>) THEN t.protocol \o imageUrl
        ELSE IF startsWith(imageUrl, <<"/">>)
             THEN t.protocol \o <<"/","/">> \o t.host \o imageUrl
        ELSE Sub(targetUrl, 1, LastSlash(targetUrl, Len(targetUrl))) \o imageUrl
      Proxied(imageUrl) ==
        proxyBaseUrl \o <<"?">> \o urlParamName \o <<"=">>
          \o encodeURIComponent(Absolute(imageUrl, F(targetUrl).urlObj))
      Replaced(imageUrl, proxyUrl) ==
        [i \in 1..Len(lines) |->
           IF lines[i].t = "uri"
           THEN [lines[i] EXCEPT !.v = ReplaceAll(lines[i].v, 1, imageUrl, proxyUrl)]
           ELSE lines[i]]
      Step(imageUrl) ==
        RewriteImages(Replaced(imageUrl, Proxied(imageUrl)),
                      SelectSeq(Tail(urls), LAMBDA u : u # imageUrl),
                      proxyBaseUrl, targetUrl, urlParamName)
  IN IF urls = <<>> THEN lines ELSE Step(Head(urls))

RECURSIVE LineMatches(_)
LineMatches(lines) ==
  IF lines = <<>> THEN <<>>
  ELSE (IF Head(lines).t = "uri" THEN ImageMatches(Head(lines).v, 1) ELSE <<>>)
         \o LineMatches(Tail(lines))

processVttContent(lines, proxyBaseUrl, targetUrl, urlParamName) ==
  IF ~F(targetUrl).urlObj.ok THEN lines
  ELSE RewriteImages(lines, LineMatches(lines), proxyBaseUrl, targetUrl, urlParamName)

UrlParam == <<"u", "r", "l">>

(***************************************************************************)
(* proxy-routes: proxyRequest once the upstream body has been read.  Each  *)
(* operator returns the exchange afterwards; BufferedStore is the cache    *)
(* write of the general branch.                                            *)
(***************************************************************************)
Finish(x, res) == [x EXCEPT !.st = "done", !.nResp = @ + 1, !.res = res]

M3u8Result(x) ==
  LET Rewritten(d, lines) ==
        Finish([x EXCEPT !.dfail = (x.up.cenc # "" /\ ~d.ok)],
               Send([x.res EXCEPT !.ctype = <<"application/vnd.apple.mpegurl">>, !.cenc = ""],
                    IF ~ContainsExtM3U(lines) THEN d.out
                    ELSE WithText(d.out,
                                  processM3u8Content(lines, PROXY_BASE, x.url, UrlParam))))
      Decoded(d) == Rewritten(d, DecodeText(d.out))
  IN Decoded(decompressWithWorker(x.up.body, x.up.cenc))

VttResult(x) ==
  Finish(x, Send([x.res EXCEPT !.ctype = <<"text/vtt">>, !.cenc = ""],
                 WithText(x.up.body,
                          processVttContent(DecodeText(x.up.body), PROXY_BASE, x.url,
                                            UrlParam))))

\* the buffer the general branch sends, and whether decoding it failed
GeneralBuffer(x) ==
  IF x.up.cenc # "" /\ ~isAudioSegment(x.up, x.url)
  THEN decompressWithWorker(x.up.body, x.up.cenc)
  ELSE [out |-> x.up.body, tried |-> <<>>, ok |-> TRUE]

GeneralContentType(x, buffer) ==
  LET Pick(detectedType, mimeType) ==
        IF detectedType # <<>> /\ ~isAudioSegment(x.up, x.url) THEN detectedType
        ELSE IF x.up.ctype # <<>> THEN x.up.ctype
        ELSE IF mimeType # <<>> THEN mimeType
        ELSE x.res.ctype
  IN Pick(IF F(x.url).disguised THEN <<"video/mp2t">>
          ELSE determineContentType(buffer, x.up.ctype, x.url),
          F(x.url).mimeType)

\* the cache test without the status
CacheEligible_AnyStatus(method, status, range) == method = "GET" /\ range = <<>>

\* "if (req.method === 'GET' && response.status === 200 && !req.headers.range)"
CacheEligible(method, status, range) ==
  method = "GET" /\ status = 200 /\ range = <<>>

\* the size test one byte too generous
SmallEnough_OneMore(size) == size <= 10 * 1024 * 1024 + 1

\* "if (buffer.byteLength <= 10 * 1024 * 1024)"
SmallEnough(size) == size <= 10 * 1024 * 1024

GeneralResult(x) ==
  LET Sent(d, decoded, store) ==
        Finish([x EXCEPT !.dfail = ~d.ok, !.put = store],
               Send([x.res EXCEPT !.ctype = GeneralContentType(x, d.out),
                                  !.cenc = IF decoded THEN "" ELSE @,
                                  !.status = x.up.status],
                    d.out))
      Buffered(d) ==
        Sent(d, x.up.cenc # "" /\ ~isAudioSegment(x.up, x.url),
             /\ CacheEligible(x.req.method, x.up.status, Lookup(x.req.headers, "range"))
             /\ SmallEnough(d.out.len))
  IN Buffered(GeneralBuffer(x))

BufferedStore(x, y, c) ==
  IF x.br = "general" /\ x.st = "body" /\ x.path = "buffered" /\ y.put
  THEN setCacheItem(c, generateCacheKey(x.url, x.req.headers), y.res.body, y.res.body.len,
                    [method |-> x.req.method, status |-> x.up.status,
                     range |-> Lookup(x.req.headers, "range"), dfail |-> y.dfail])
  ELSE c

BufferedAfterBody(x) ==
  IF x.br = "err" THEN Finish(x, Send([x.res EXCEPT !.status = x.up.status], x.up.body))
  ELSE IF x.br = "206" THEN Finish(x, Send([x.res EXCEPT !.status = 206], x.up.body))
  ELSE IF x.br = "audio"
       THEN Finish(x, Send([x.res EXCEPT !.ctype = IF x.up.ctype # <<>> THEN x.up.ctype ELSE @],
                           x.up.body))
  ELSE IF x.br = "m3u8" THEN M3u8Result(x)
  ELSE IF x.br = "vtt" THEN VttResult(x)
  ELSE GeneralResult(x)

\* reading the upstream body fails
BufferedBodyFailed(x) ==
  IF x.br = "err" THEN Finish(x, Send([x.res EXCEPT !.status = x.up.status], EmptyBody))
  ELSE IF x.br = "206" THEN Finish(x, SendError(x.res, 500, "Failed to process partial content"))
  ELSE IF x.br = "audio" THEN Finish(x, SendError(x.res, 500, "Failed to process audio segment"))
  ELSE IF x.br = "m3u8" THEN Finish(x, SendError(x.res, 500, "Failed to process M3U8 content"))
  ELSE IF x.br = "vtt" THEN [x EXCEPT !.st = "done"]
  ELSE Finish(x, SendError(x.res, 500, "Failed to process response content"))

(***************************************************************************)
(* proxy-routes: streamProxyRequest once the upstream body has been read   *)
(***************************************************************************)
StreamAfterBody(x) ==
  LET Case1(d, plain) ==
        IF F(x.url).m3u8Playlist
        THEN Send([plain EXCEPT !.ctype = <<"application/vnd.apple.mpegurl">>],
                  WithText(d.out, processM3u8Content(DecodeText(d.out), PROXY_BASE,
                                                     x.url, UrlParam)))
        ELSE IF CtIncludes(x.up.ctype, "text/vtt")
        THEN Send([plain EXCEPT !.ctype = <<"text/vtt">>],
                  WithText(d.out, processVttContent(DecodeText(d.out), PROXY_BASE,
                                                    x.url, UrlParam)))
        ELSE Send(plain, d.out)
      Case2(lines) ==
        IF F(x.url).m3u8Playlist
        THEN Send([x.res EXCEPT !.ctype = <<"application/vnd.apple.mpegurl">>],
                  WithText(x.up.body,
                           processM3u8Content(lines, PROXY_BASE, x.url, UrlParam)))
        ELSE Send([x.res EXCEPT !.ctype = <<"text/vtt">>],
                  WithText(x.up.body,
                           processVttContent(lines, PROXY_BASE, x.url, UrlParam)))
      Branch(d, plain) ==
        IF x.br = "s-err" THEN Finish(x, Send(x.res, x.up.body))
        ELSE IF x.br = "s1" THEN Finish([x EXCEPT !.dfail = ~d.ok], Case1(d, plain))
        ELSE IF x.br = "s2" THEN Finish(x, Case2(DecodeText(x.up.body)))
        ELSE IF x.br = "s3" THEN Finish([x EXCEPT !.dfail = ~d.ok], Send(plain, d.out))
        ELSE IF x.up.cenc # "" THEN Finish([x EXCEPT !.dfail = ~d.ok], Send(plain, d.out))
        ELSE Finish(x, Send(x.res, x.up.body))
  IN Branch(decompressWithWorker(x.up.body, x.up.cenc), [x.res EXCEPT !.cenc = ""])

StreamBodyFailed(x) ==
  IF x.br = "s-err" THEN Finish(x, End(x.res))
  ELSE Finish(x, SendError(x.res, 500, "Failed to process content"))

\* the upstream body has been read (arrayBuffer() / text() resolves) and the
\* handler runs to its end
BodyResolve(e) ==
  /\ ex[e].st = "body"
  /\ \E y \in {IF ex[e].path = "buffered" THEN BufferedAfterBody(ex[e])
               ELSE StreamAfterBody(ex[e])} :
       /\ ex' = [ex EXCEPT ![e] = y]
       /\ cache' = BufferedStore(ex[e], y, cache)
  /\ metrics' = [metrics EXCEPT !.responses = @ + 1]
  /\ UNCHANGED <<headerCache, config, started, call>>

BodyReject(e) ==
  /\ ex[e].st = "body"
  /\ ex' = [ex EXCEPT ![e] = IF ex[e].path = "buffered" THEN BufferedBodyFailed(ex[e])
                             ELSE StreamBodyFailed(ex[e])]
  /\ metrics' = [metrics EXCEPT !.responses = @ + (ex'[e].nResp - ex[e].nResp)]
  /\ UNCHANGED <<cache, headerCache, config, started, call>>

\* response.body.pipe(res): the 'end' event
PipeEnd(e) ==
  /\ ex[e].st = "pipe"
  /\ ex' = [ex EXCEPT ![e] = Finish(ex[e], Send(ex[e].res, ex[e].up.body))]
  /\ metrics' = [metrics EXCEPT !.responses = @ + 1]
  /\ UNCHANGED <<cache, headerCache, config, started, call>>

\* the 'error' handler without its test of res.headersSent
PipeErrorResult_Unguarded(x, partial) ==
  IF partial
  THEN Finish(x, End([Send(x.res, BufferSlice(x.up.body, 0, 1)) EXCEPT !.status = 500]))
  ELSE Finish(x, End([x.res EXCEPT !.status = 500]))

\* the 'error' event, before (partial = FALSE) or after the first chunk
PipeErrorResult(x, partial) ==
  IF partial THEN Finish(x, Send(x.res, BufferSlice(x.up.body, 0, 1)))
  ELSE Finish(x, End([x.res EXCEPT !.status = 500]))

PipeError(e) ==
  /\ ex[e].st = "pipe"
  /\ \E partial \in BOOLEAN : ex' = [ex EXCEPT ![e] = PipeErrorResult(ex[e], partial)]
  /\ metrics' = [metrics EXCEPT !.responses = @ + 1]
  /\ UNCHANGED <<cache, headerCache, config, started, call>>

\* processM3u8Content throws in the M3U8 branch of proxyRequest.  The catch
\* block reads response.arrayBuffer() a second time; the body was consumed
\* by the first read, so the read rejects and the inner catch answers 500.
RewriteErrorResult(x) ==
  Finish(x, SendError(x.res, 500, "Failed to process M3U8 content"))

RewriteError(e) ==
  /\ ex[e].st = "body" /\ ex[e].path = "buffered" /\ ex[e].br = "m3u8"
  /\ ContainsExtM3U(DecodeText(decompressWithWorker(ex[e].up.body, ex[e].up.cenc).out))
  /\ ex' = [ex EXCEPT ![e] = RewriteErrorResult(ex[e])]
  /\ metrics' = [metrics EXCEPT !.responses = @ + 1]
  /\ UNCHANGED <<cache, headerCache, config, started, call>>

(***************************************************************************)
(* proxy-routes: router.get('/debug'), which fetches the URL of ?url= with *)
(* HEAD and answers with an analysis of the response headers.  The route   *)
(* has no validateUrlParam in front of it.                                 *)
(***************************************************************************)
DebugBody(tag, url) ==
  [EmptyBody EXCEPT !.pl = <<[t |-> tag, n |-> "", v |-> url]>>, !.len = 64]

\* up to the fetch; fetch() of a string that is no URL rejects at once
DebugResult(req) ==
  LET Asked(x, url) ==
        IF url = <<>>
        THEN [x EXCEPT !.st = "done",
                       !.res = Send([NewRes EXCEPT !.status = 400,
                                                   !.ctype = <<"application/json">>],
                                    DebugBody("error", <<>>))]
        ELSE IF ~F(url).urlObj.ok
        THEN [x EXCEPT !.st = "done", !.url = url,
                       !.res = Send([NewRes EXCEPT !.status = 500,
                                                   !.ctype = <<"application/json">>],
                                    DebugBody("error", url))]
        ELSE [x EXCEPT !.st = "dfetch", !.url = url, !.nFetch = 1]
  IN Asked([Idle EXCEPT !.req = req, !.path = "debug"], RouteParams(req).query)

Debug(e, reqs) ==
  /\ ex[e].st \in {"idle", "done"}
  /\ started < MaxExchanges
  /\ \E req \in reqs : ex' = [ex EXCEPT ![e] = DebugResult(req)]
  /\ started' = started + 1
  /\ UNCHANGED <<cache, headerCache, metrics, config, call>>

\* the HEAD fetch of /debug resolves (ok) or rejects
DebugAnswer(x, ok, up) ==
  IF ok
  THEN [x EXCEPT !.st = "done", !.up = up,
                 !.res = Send([x.res EXCEPT !.ctype = <<"application/json">>],
                              DebugBody("analysis", x.url))]
  ELSE [x EXCEPT !.st = "done",
                 !.res = Send([x.res EXCEPT !.status = 500,
                                            !.ctype = <<"application/json">>],
                              DebugBody("error", x.url))]

DebugSettle(e, ups) ==
  /\ ex[e].st = "dfetch"
  /\ \E ok \in BOOLEAN : \E up \in ups :
       ex' = [ex EXCEPT ![e] = DebugAnswer(ex[e], ok, [up EXCEPT !.body = EmptyBody])]
  /\ UNCHANGED <<cache, headerCache, metrics, config, started, call>>

\* the client closes its socket while the exchange is in progress.  Neither
\* handler listens for the 'close' event of the request or the response, and
\* the abort controllers are aborted by the timers alone: the exchange goes on.
ClientClose(e) ==
  /\ ex[e].st \in {"fetch", "sfetch", "body", "pipe"}
  /\ ~ex[e].closed
  /\ ex' = [ex EXCEPT ![e].closed = TRUE]
  /\ UNCHANGED <<cache, headerCache, metrics, config, started, call>>

(***************************************************************************)
(* Specification: exchanges handled one after the other by one server      *)
(* process.                                                                *)
(***************************************************************************)
Init ==
  /\ ex = [e \in Ex |-> Idle]
  /\ cache = <<>>
  /\ headerCache = EmptyMap
  /\ metrics = [requests |-> 0, responses |-> 0, cacheHits |-> 0, cacheMisses |-> 0]
  /\ config \in Configs
  /\ started = 0
  /\ call = NoCall

Next ==
  \/ Receive(1, Requests)
  \/ FetchResolve(1, Upstreams)
  \/ FetchReject(1)
  \/ Timeout(1)
  \/ BodyResolve(1)
  \/ BodyReject(1)
  \/ PipeEnd(1)
  \/ PipeError(1)

Spec == Init /\ [][Next]_vars


(***************************************************************************)
(* The same server process with the requests and upstream responses of     *)
(* the Range cases.                                                        *)
(***************************************************************************)
NextRange ==
  \/ Receive(1, RangeRequests)
  \/ FetchResolve(1, RangeUpstreams)
  \/ FetchReject(1)
  \/ Timeout(1)
  \/ BodyResolve(1)
  \/ BodyReject(1)
  \/ PipeEnd(1)
  \/ PipeError(1)

SpecRange == Init /\ [][NextRange]_vars

(***************************************************************************)
(* The same server process with GETs of the URLs of the fast path.         *)
(***************************************************************************)
NextStream ==
  \/ Receive(1, StreamRequests)
  \/ FetchResolve(1, StreamUpstreams)
  \/ FetchReject(1)
  \/ Timeout(1)
  \/ BodyResolve(1)
  \/ BodyReject(1)
  \/ PipeEnd(1)
  \/ PipeError(1)

SpecStream == Init /\ [][NextStream]_vars

(***************************************************************************)
(* The same server process with clients that may close their socket.       *)
(***************************************************************************)
NextClose ==
  \/ Receive(1, StreamRequests)
  \/ FetchResolve(1, StreamUpstreams)
  \/ FetchReject(1)
  \/ Timeout(1)
  \/ BodyResolve(1)
  \/ BodyReject(1)
  \/ PipeEnd(1)
  \/ PipeError(1)
  \/ ClientClose(1)

SpecClose == Init /\ [][NextClose]_vars

(***************************************************************************)
(* The same server process with the allow-list on or off, requests on      *)
(* every route of the router, and URLs that admission has to judge.        *)
(***************************************************************************)
InitAdmit ==
  /\ ex = [e \in Ex |-> Idle]
  /\ cache = <<>>
  /\ headerCache = EmptyMap
  /\ metrics = [requests |-> 0, responses |-> 0, cacheHits |-> 0, cacheMisses |-> 0]
  /\ config \in AdmitConfigs
  /\ started = 0
  /\ call = NoCall

NextAdmit ==
  \/ Receive(1, AdmitRequests)
  \/ Debug(1, DebugRequests)
  \/ FetchResolve(1, AdmitUpstreams)
  \/ DebugSettle(1, AdmitUpstreams)
  \/ FetchReject(1)
  \/ Timeout(1)
  \/ BodyResolve(1)
  \/ BodyReject(1)
  \/ PipeEnd(1)
  \/ PipeError(1)

SpecAdmit == InitAdmit /\ [][NextAdmit]_vars

(***************************************************************************)
(* The same server process with clients that send hop-by-hop, forwarding,  *)
(* cache and Range headers.                                                *)
(***************************************************************************)
NextHeaders ==
  \/ Receive(1, HeaderRequests)
  \/ FetchResolve(1, AdmitUpstreams)
  \/ FetchReject(1)
  \/ Timeout(1)
  \/ BodyResolve(1)
  \/ BodyReject(1)
  \/ PipeEnd(1)
  \/ PipeError(1)

SpecHeaders == Init /\ [][NextHeaders]_vars

(***************************************************************************)
(* The same server process with upstreams that answer playlists with and   *)
(* without the #EXTM3U tag.                                                *)
(***************************************************************************)
NextPlaylist ==
  \/ Receive(1, PlaylistRequests)
  \/ FetchResolve(1, PlaylistUpstreams)
  \/ FetchReject(1)
  \/ Timeout(1)
  \/ BodyResolve(1)
  \/ BodyReject(1)
  \/ PipeEnd(1)
  \/ PipeError(1)

SpecPlaylist == Init /\ [][NextPlaylist]_vars

(***************************************************************************)
(* Exchanges in progress at once: the handlers of different exchanges      *)
(* interleave at their awaits (the fetch, the body read, the pipe).        *)
(***************************************************************************)
UaHeader == [n \in {"user-agent"} |-> <<"curl/8.0">>]

PairRequests ==
  { Request("GET", U_PNG, UaHeader), Request("GET", U_PNG, PortHeader),
    Request("GET", U_MP4, NoHeaders), Request("GET", U_FROST, RangeHeader(R_0_1)) }

PairUpstreams ==
  { Response(200, <<"image/png">>, "", 3, BinBody("png", 3, {})),
    Response(200, <<"video/mp4">>, "", 50000000, BinBody("mp4", 50000000, {})),
    Response(404, <<"application/json">>, "", 9, BinBody("notfound", 9, {})) }

\* the server either fresh or after one earlier exchange, a GET of
\* https://a.io/x.png answered 200 by the upstream and stored in the cache
WarmCache ==
  setCacheItem(<<>>, generateCacheKey(U_PNG, NoHeaders), BinBody("png", 3, {}), 3,
               [method |-> "GET", status |-> 200, range |-> <<>>, dfail |-> FALSE])

WarmHeaderCache == generateHeadersForUrl(EmptyMap, F(U_PNG).urlObj, 1).cache

InitPair ==
  /\ ex = [e \in Ex |-> Idle]
  /\ \/ /\ cache = <<>>
        /\ headerCache = EmptyMap
        /\ metrics = [requests |-> 0, responses |-> 0, cacheHits |-> 0, cacheMisses |-> 0]
     \/ /\ cache = WarmCache
        /\ headerCache = WarmHeaderCache
        /\ metrics = [requests |-> 1, responses |-> 1, cacheHits |-> 0, cacheMisses |-> 1]
  /\ config \in Configs
  /\ started = 0
  /\ call = NoCall

NextPair ==
  \/ \E e \in Ex : Receive(e, PairRequests)
  \/ \E e \in Ex : FetchResolve(e, PairUpstreams)
  \/ \E e \in Ex : FetchReject(e)
  \/ \E e \in Ex : Timeout(e)
  \/ \E e \in Ex : BodyResolve(e)
  \/ \E e \in Ex : BodyReject(e)
  \/ \E e \in Ex : PipeEnd(e)
  \/ \E e \in Ex : PipeError(e)

SpecPair == InitPair /\ [][NextPair]_vars

(***************************************************************************)
(* The server process of Spec with a playlist rewriter that may throw.     *)
(***************************************************************************)
NextRewrite ==
  \/ Next
  \/ RewriteError(1)

SpecRewrite == Init /\ [][NextRewrite]_vars

(***************************************************************************)
(* The helpers of utils/helpers called on their own, with buffers, content *)
(* types, encodings and texts drawn from the sets below.                   *)
(***************************************************************************)
SniffOffsets == {0, 188, 376, 564, 752, 940}

SniffLengths == {0, 187, 188, 189, 376, 377, 565, 753, 941, 1128}

\* buffers of these lengths with 0x47 at any of the offsets they have
SniffBuffers ==
  UNION {{BinBody("bytes", n, s) : s \in SUBSET {o \in SniffOffsets : o < n}} :
           n \in SniffLengths}

CallDetectTransportStream ==
  /\ \E b \in SniffBuffers :
       call' = [fn |-> "detectTransportStream", buffer |-> b,
                result |-> detectTransportStream(b)]
  /\ UNCHANGED <<ex, cache, headerCache, metrics, config, started>>

ArbiterBuffers == {BinBody("bytes", 3, {}), BinBody("bytes", 188, {0}), TsBytes}

ArbiterContentTypes ==
  {<<>>, <<"application/javascript">>, <<"image/png">>, <<"video/mp2t">>,
   <<"application/vnd.apple.mpegurl">>}

ArbiterUrls == {U_SEG, U_PNG, U_M3U8, U_M3U8_UPPER, U_MP4}

CallDetermineContentType ==
  /\ \E b \in ArbiterBuffers, ct \in ArbiterContentTypes, u \in ArbiterUrls :
       call' = [fn |-> "determineContentType", buffer |-> b,
                originalContentType |-> ct, url |-> u,
                result |-> determineContentType(b, ct, u)]
  /\ UNCHANGED <<ex, cache, headerCache, metrics, config, started>>

\* bytes in each codec's format, bytes in none, bytes that start with the
\* gzip or zstd magic number without being a stream of that codec, no bytes
CodecBuffers ==
  {Encoded(c, BinBody("data", 60, {}), 30) : c \in {"gzip", "brotli", "deflate", "zstd"}}
  \cup {[BinBody("plain", 5, {}) EXCEPT !.magic = m] : m \in {"none", "gzip", "zstd"}}
  \cup {EmptyBody}

CodecEncodings == {"", "gzip", "br", "zstd", "deflate", "GZIP", "identity"}

CallDecompressContent ==
  /\ \E b \in CodecBuffers, enc \in CodecEncodings :
       call' = [fn |-> "decompressContent", buffer |-> b, contentEncoding |-> enc,
                result |-> decompressContent(b, enc)]
  /\ UNCHANGED <<ex, cache, headerCache, metrics, config, started>>

\* image references of the four kinds, and what may follow one on its line
VttRefs ==
  {<<"h","t","t","p","s",":","/","/","c",".","i","o","/","1",".","j","p","g">>,
   <<"/","/","c",".","i","o","/","1",".","p","n","g">>,
   <<"/","t","/","1",".","g","i","f">>,
   <<"t","/","1",".","w","e","b","p">>,
   <<"2",".","J","P","E","G">>}

VttSuffixes == {<<>>, <<"#","x","y","w","h","=","0",",","0",",","9",",","9">>}

\* a cue: its timing line and its payload line, an image reference and what follows it
VttCues == {[ref |-> r, post |-> s] : r \in VttRefs, s \in VttSuffixes}

VttTiming == Uri(<<"0","0",":","0","1",".","0","0","0"," ","-","-",">"," ","0","0",":","0","2",".","0","0","0">>)

VttText(cues) ==
  <<Tag("WEBVTT")>> \o [i \in 1..(2 * Len(cues)) |->
                          IF i % 2 = 1 THEN VttTiming
                          ELSE Uri(cues[i \div 2].ref \o cues[i \div 2].post)]

VttInputs == {<<c>> : c \in VttCues} \cup {<<c, d>> : c \in VttCues, d \in VttCues}

\* what processVttContent returns for each of the texts
VttResults ==
  {[cues |-> c, result |-> processVttContent(VttText(c), PROXY_BASE, U_VTT, UrlParam)] :
     c \in VttInputs}

CallProcessVttContent ==
  /\ \E r \in VttResults :
       call' = [fn |-> "processVttContent", cues |-> r.cues, targetUrl |-> U_VTT,
                result |-> r.result]
  /\ UNCHANGED <<ex, cache, headerCache, metrics, config, started>>

NextHelpers ==
  \/ CallDetectTransportStream
  \/ CallDetermineContentType
  \/ CallDecompressContent
  \/ CallProcessVttContent

SpecHelpers == Init /\ [][NextHelpers]_vars

(***************************************************************************)
(* Properties                                                              *)
(***************************************************************************)
\* the Range header of the request of exchange e (<<>>: none)
RangeOf(e) == Lookup(ex[e].req.headers, "range")

\* the cache entry stored under the URL of exchange e
HasEntry(e) == \E i \in 1..Len(cache) : cache[i].key.url = ex[e].url

EntryOf(e) == cache[CHOOSE i \in 1..Len(cache) : cache[i].key.url = ex[e].url].data

\* C1: every admitted request causes at most one upstream fetch, on the
\* stream path, on the buffered path, and when a buffered fetch is handed to
\* the stream path because of its Content-Length.
C1_AtMostOneFetch == \A e \in Ex : ex[e].nFetch <= 1

\* C2: an exchange answered from the response cache has synthesized no
\* headers and issued no fetch: it is finished, with one response, straight
\* from the lookup.
C2_HitUsesCacheAlone ==
  \A e \in Ex :
    ex[e].hit =>
      /\ ex[e].nSynth = 0
      /\ ex[e].nFetch = 0
      /\ ex[e].uph = EmptyMap
      /\ ex[e].st = "done"
      /\ ex[e].res.sends = 1

C2_Witness ==
  \E e \in Ex : ex[e].hit /\ ex[e].req.method = "GET" /\ ex[e].res.xcache = "HIT"

\* the readings of the Range header values: m, whether the value holds
\* "bytes=<digits>-"; ab, whether the value is exactly bytes=a-b; a and b,
\* the numbers (b = -1: none)
RangeReadings ==
  { [h |-> R_0_1,   ab |-> TRUE,  m |-> TRUE,  a |-> 0, b |-> 1],
    [h |-> R_1_2,   ab |-> TRUE,  m |-> TRUE,  a |-> 1, b |-> 2],
    [h |-> R_2_1,   ab |-> TRUE,  m |-> TRUE,  a |-> 2, b |-> 1],
    [h |-> R_0_3,   ab |-> TRUE,  m |-> TRUE,  a |-> 0, b |-> 3],
    [h |-> R_1_,    ab |-> FALSE, m |-> TRUE,  a |-> 1, b |-> -1],
    [h |-> R_5_,    ab |-> FALSE, m |-> TRUE,  a |-> 5, b |-> -1],
    [h |-> R_ITEMS, ab |-> FALSE, m |-> FALSE, a |-> 0, b |-> -1],
    [h |-> R_LIST,  ab |-> FALSE, m |-> TRUE,  a |-> 0, b |-> 1] }

\* exchange e was answered with the whole cached body, status 200 and no
\* Content-Range
FullBody(e) ==
  /\ ex[e].res.status = 200
  /\ ex[e].res.body = EntryOf(e)
  /\ ex[e].res.crange = <<>>
  /\ ex[e].res.sends = 1

\* C3: a cache hit with Range: bytes=a-b, 0 <= a <= b < size, is answered
\* 206 with the bytes a..b of the cached body (b-a+1 of them), Content-Range
\* bytes a-b/size and X-Cache: HIT.
C3_RangeHitSlice ==
  \A e \in Ex : \A r \in RangeReadings :
    (/\ ex[e].hit /\ HasEntry(e) /\ RangeOf(e) = r.h /\ r.ab
     /\ 0 <= r.a /\ r.a <= r.b /\ r.b < EntryOf(e).len)
    => /\ ex[e].res.status = 206
       /\ ex[e].res.body.len = r.b - r.a + 1
       /\ ex[e].res.body.off = EntryOf(e).off + r.a
       /\ ex[e].res.body.pl = EntryOf(e).pl
       /\ ex[e].res.crange = <<"bytes", r.a, r.b, EntryOf(e).len>>
       /\ ex[e].res.xcache = "HIT"
       /\ ex[e].res.sends = 1

C3_Witness ==
  \E e \in Ex :
    /\ ex[e].hit /\ HasEntry(e) /\ RangeOf(e) = R_1_2 /\ EntryOf(e).len = 3
    /\ ex[e].res.status = 206

\* C4 as stated: a cache hit whose Range header has start > end, or
\* end >= size, or is not of the form bytes=a-b, is answered with the whole
\* cached body, status 200 and no Content-Range.
C4_AsStated ==
  \A e \in Ex : \A r \in RangeReadings :
    (/\ ex[e].hit /\ HasEntry(e) /\ RangeOf(e) = r.h
     /\ (~r.ab \/ r.a > r.b \/ r.b >= EntryOf(e).len))
    => FullBody(e)

\* C4, amended: a cache hit is answered with the whole cached body, status
\* 200 and no Content-Range when its Range header holds no "bytes=<digits>-"
\* anywhere, or when start > end or end >= size for the first such match,
\* where end is the number after the dash or, without one, size - 1.
C4_InvalidRangeFullBody ==
  \A e \in Ex : \A r \in RangeReadings :
    LET size == EntryOf(e).len
        end  == IF r.b >= 0 THEN r.b ELSE size - 1
    IN (/\ ex[e].hit /\ HasEntry(e) /\ RangeOf(e) = r.h
        /\ (~r.m \/ r.a > end \/ end >= size))
       => FullBody(e)

C4_Witness ==
  \E e \in Ex :
    /\ ex[e].hit /\ HasEntry(e) /\ RangeOf(e) = R_2_1 /\ EntryOf(e).len = 3
    /\ FullBody(e)


\* C5: every entry of the response cache was written by an exchange whose
\* method was GET, whose upstream status was 200 and whose request carried
\* no Range header.
C5_WritesOnlyGet200NoRange ==
  \A i \in 1..Len(cache) :
    /\ cache[i].w.method = "GET"
    /\ cache[i].w.status = 200
    /\ cache[i].w.range = <<>>

\* an entry is in the cache and a POST answered 200 has just gone through the
\* general branch
C5_Witness ==
  /\ Len(cache) >= 1
  /\ ex[1].st = "done" /\ ex[1].br = "general" /\ ex[1].req.method = "POST"
  /\ ex[1].up.status = 200 /\ ex[1].res.sends = 1

\* C6: an exchange in which the decompression of the encoded upstream body
\* failed (the declared codec and every fallback) writes no cache entry.
C6_NoWriteAfterFailedDecompression ==
  /\ \A i \in 1..Len(cache) : ~cache[i].w.dfail
  /\ \A e \in Ex : ex[e].dfail => ~ex[e].put

TenMiB == 10 * 1024 * 1024

\* exchange e went through the general branch of the buffered path for a
\* GET without Range answered 200, and its body was read
EligibleDone(e) ==
  /\ ex[e].st = "done" /\ ex[e].path = "buffered" /\ ex[e].br = "general"
  /\ ex[e].req.method = "GET" /\ RangeOf(e) = <<>>
  /\ ex[e].up.status = 200 /\ ex[e].res.status = 200 /\ ex[e].res.sends = 1

\* C7: no cache entry is larger than 10 MiB; a body above 10 MiB is sent to
\* the client and not stored; an eligible body of at most 10 MiB is stored,
\* and a lookup of the same key returns it unchanged.
C7_TenMiBCap ==
  /\ \A i \in 1..Len(cache) : cache[i].data.len <= TenMiB
  /\ \A e \in Ex :
       /\ ex[e].put => ex[e].res.body.len <= TenMiB
       /\ EligibleDone(e) =>
            IF ex[e].res.body.len > TenMiB
            THEN ~HasEntry(e) /\ ex[e].res.body.len = ex[e].up.body.len
            ELSE HasEntry(e) /\ EntryOf(e) = ex[e].res.body
       /\ (ex[e].hit /\ RangeOf(e) = <<>>) => HasEntry(e) /\ ex[e].res.body = EntryOf(e)

\* a body of exactly 10 MiB is in the cache and a body of 10 MiB + 1 has
\* just been sent
C7_Witness ==
  /\ \E i \in 1..Len(cache) : cache[i].data.len = TenMiB
  /\ EligibleDone(1) /\ ex[1].res.body.len = TenMiB + 1

\* the URLs of the inputs that end in .ts, .m3u8, .mp4, .mp3 or .m4s, hold
\* "segment-", or are disguised segments
FastUrls == {U_TS, U_M3U8, U_MP4, U_MP3, U_M4S, U_SEGMENT, U_SEG}

\* C8: with streaming enabled, a GET of a fast-path URL is handled by the
\* stream path, is never answered from the cache and writes no entry: the
\* cache never holds an entry for such a URL.
C8_FastPathNeverCached ==
  config.streaming =>
    /\ \A i \in 1..Len(cache) : cache[i].key.url \notin FastUrls
    /\ \A e \in Ex :
         (ex[e].st # "idle" /\ ex[e].req.method = "GET" /\ ex[e].url \in FastUrls)
         => ex[e].path = "stream" /\ ~ex[e].hit /\ ~ex[e].put

\* the second of two GETs, both cache misses, is a GET of the .mp4 URL and
\* has been answered by the stream path
C8_Witness ==
  /\ config.streaming /\ started = 2 /\ metrics.cacheMisses = 2
  /\ ex[1].url = U_MP4 /\ ex[1].st = "done" /\ ex[1].path = "stream"
  /\ ex[1].up.status = 200 /\ ex[1].res.sends = 1

\* C9: with streaming enabled, the answer to a GET of a disguised-segment
\* URL has Content-Type video/mp2t whatever the upstream sent, and the body
\* of the upstream.
C9_DisguisedSegmentIsMp2t ==
  \A e \in Ex :
    (/\ config.streaming /\ ex[e].req.method = "GET" /\ ex[e].url = U_SEG
     /\ ex[e].st = "done" /\ ex[e].up.status = 200
     /\ ex[e].res.status = 200 /\ ex[e].res.sends = 1)
    => /\ ex[e].res.ctype = <<"video/mp2t">>
       /\ (ex[e].up.cenc = "" /\ ex[e].res.body.len = ex[e].up.body.len)
            => ex[e].res.body = ex[e].up.body

\* C10: the answer to a GET of a URL ending in .m3u8 whose upstream answers
\* 200 with a gzip-encoded playlist has Content-Type
\* application/vnd.apple.mpegurl, no Content-Encoding, and the rewritten
\* decoded playlist as its body.
C10_CompressedManifestRewritten ==
  \A e \in Ex :
    (/\ ex[e].req.method = "GET" /\ ex[e].url \in {U_M3U8, U_AUDIO_M3U8}
     /\ ex[e].st = "done" /\ ex[e].up = UP_GZ_PLAYLIST
     /\ ex[e].res.status = 200 /\ ex[e].res.sends = 1)
    => /\ ex[e].res.ctype = <<"application/vnd.apple.mpegurl">>
       /\ ex[e].res.cenc = ""
       /\ ex[e].res.body.pl = processM3u8Content(Playlist, PROXY_BASE, ex[e].url, UrlParam)

\* C11: an exchange in which the decompression of the encoded upstream body
\* failed is answered with the status and the bytes of the upstream, and the
\* answer carries the Content-Encoding the upstream declared.
C11_FailedDecompressionKeepsEncoding ==
  \A e \in Ex :
    (ex[e].st = "done" /\ ex[e].dfail /\ ex[e].res.sends = 1)
    => /\ ex[e].res.status = ex[e].up.status
       /\ ex[e].res.body = ex[e].up.body
       /\ ex[e].res.cenc = ex[e].up.cenc

\* C12: a successful answer to a request for an audio segment (upstream
\* Content-Type audio/mp4 or audio/aac, or a URL holding .aac or mp4a.40)
\* carries the bytes of the upstream body unchanged and the Content-Encoding
\* the upstream declared, on the stream path and on the buffered path.
C12_AudioPassesThrough ==
  \A e \in Ex :
    (/\ ex[e].st = "done" /\ isAudioSegment(ex[e].up, ex[e].url)
     /\ ex[e].up.status \in 200..299 /\ ex[e].res.status = ex[e].up.status
     /\ ex[e].res.sends = 1
     /\ (ex[e].br = "s4" => ex[e].res.body.len = ex[e].up.body.len))
    => /\ ex[e].res.body = ex[e].up.body
       /\ ex[e].res.cenc = ex[e].up.cenc

\* C13: when the request timeout elapses while the upstream fetch is
\* pending, on the buffered path, the stream path or after the handoff, the
\* exchange ends with one response: status 504 and the JSON error envelope
\* whose message names the timeout.
C13_TimeoutIs504 ==
  [][\A e \in Ex :
       Timeout(e) =>
         /\ ex[e].res.sends = 0
         /\ ex'[e].st = "done"
         /\ ex'[e].res.status = 504
         /\ ex'[e].res.ctype = <<"application/json">>
         /\ ex'[e].res.body = ErrorBody(504, "Request timed out after REQUEST_TIMEOUT ms")
         /\ ex'[e].res.sends = 1]_vars

\* the second exchange was handed to the stream path and its timeout
\* elapsed there: it is answered 504
C13_Witness ==
  /\ started = 2 /\ metrics.responses = 2
  /\ ex[1].st = "done" /\ ex[1].path = "handoff" /\ ex[1].res.status = 504
  /\ ex[1].res.sends = 1

\* C14: once the client of an exchange has closed its socket, the exchange
\* receives no upstream response (the fetch is aborted) and nothing more is
\* written to its response.
C14_ClientCloseCancels ==
  [][\A e \in Ex :
       (ex[e].closed /\ ex'[e].closed)
       => /\ ex'[e].up = ex[e].up
          /\ ex'[e].res = ex[e].res]_vars

\* the URL a request asks for is missing, longer than the configured
\* maximum, no URL that can be parsed, or on a host outside a non-empty
\* allow-list
RefusedUrl(cfg, url) ==
  \/ url = <<>>
  \/ Len(url) > cfg.maxUrlLength
  \/ ~F(url).urlObj.ok
  \/ (cfg.allowed # {} /\ F(url).urlObj.hostname \notin cfg.allowed)

\* C15: a request on a proxy route whose URL is missing, too long,
\* unparseable or on a host outside the non-empty allow-list is answered 400
\* with the error envelope, and the pipeline is not entered for it: no cache
\* lookup, no upstream fetch, no cache write.
C15_BadUrlIs400 ==
  \A e \in Ex :
    (/\ ex[e].st # "idle" /\ ex[e].req.route # "debug"
     /\ RefusedUrl(config, RouteUrl(ex[e].req)))
    => /\ ex[e].st = "done"
       /\ ex[e].res.status = 400
       /\ ex[e].res.ctype = <<"application/json">>
       /\ ex[e].res.sends = 1
       /\ ex[e].nReq = 0 /\ ex[e].nFetch = 0
       /\ ~ex[e].hit /\ ~ex[e].put

\* C16: the target URL of every exchange that passed admission on a proxy
\* route parses as an absolute URL with scheme http or https and a hostname,
\* and is no longer than the configured maximum; so is the URL of every
\* upstream fetch of the proxy routes.
C16_TargetUrlIsAbsoluteHttp ==
  \A e \in Ex :
    (ex[e].req.route # "debug" /\ (ex[e].nReq >= 1 \/ ex[e].nFetch >= 1))
    => /\ F(ex[e].url).urlObj.ok
       /\ F(ex[e].url).urlObj.protocol \in {<<"h","t","t","p",":">>, <<"h","t","t","p","s",":">>}
       /\ F(ex[e].url).urlObj.hostname # <<>>
       /\ Len(ex[e].url) <= config.maxUrlLength

\* C17: with a non-empty allow-list in force, every upstream request the
\* router makes, on whichever route, goes to a host of the allow-list.
C17_FetchOnlyAllowedHosts ==
  config.allowed # {} =>
    \A e \in Ex :
      ex[e].nFetch >= 1 => F(ex[e].url).urlObj.hostname \in config.allowed

\* C18: a request to /base64/<E> is judged as a request for the URL that E
\* decodes to: when that URL is valid the exchange is admitted with it as
\* its target URL, and otherwise the request is answered 400.
C18_Base64RouteDecodes ==
  \A e \in Ex :
    (ex[e].req.route = "base64" /\ ex[e].st # "idle")
    => IF Validation(Base64Decode(ex[e].req.raw), config).valid
       THEN ex[e].nReq >= 1 /\ ex[e].url = Base64Decode(ex[e].req.raw)
       ELSE ex[e].st = "done" /\ ex[e].res.status = 400 /\ ex[e].nReq = 0

\* C19: when the rewriting of a playlist answered 200 fails on the buffered
\* path, the client receives status 200, Content-Type
\* application/vnd.apple.mpegurl and the decoded upstream body.
C19_RewriteFailureServesOriginal ==
  [][\A e \in Ex :
       RewriteError(e) =>
         /\ ex'[e].res.status = 200
         /\ ex'[e].res.ctype = <<"application/vnd.apple.mpegurl">>
         /\ ex'[e].res.body = decompressWithWorker(ex[e].up.body, ex[e].up.cenc).out
         /\ ex'[e].res.sends = 1]_vars

\* C20: every exchange of a proxy route that has reached its end (answered
\* from the cache or the upstream, refused by admission, timed out, failed,
\* stream ended or broken) has recorded a response sample.
C20_TerminalRecordsResponse ==
  \A e \in Ex :
    (ex[e].st = "done" /\ ex[e].req.route # "debug") => ex[e].nResp >= 1


\* the characters of the names of the x-forwarded- headers of the inputs
ForwardedPrefix == <<"x","-","f","o","r","w","a","r","d","e","d","-">>

NameChars(n) ==
  CASE n = "x-forwarded-for" -> ForwardedPrefix \o <<"f","o","r">>
    [] n = "x-forwarded-host" -> ForwardedPrefix \o <<"h","o","s","t">>
    [] n = "x-forwarded-proto" -> ForwardedPrefix \o <<"p","r","o","t","o">>
    [] n = "x-forwarded-port" -> ForwardedPrefix \o <<"p","o","r","t">>
    [] OTHER -> <<>>

\* C21: the request sent upstream carries none of the client's connection,
\* content-length or forwarded headers, no client header whose name begins
\* with x-forwarded-, and its Host header is the host of the target URL
C21_DropSetAndHost ==
  \A e \in Ex :
    ex[e].nFetch >= 1 =>
      /\ \A n \in DOMAIN ex[e].uph :
           /\ n \notin {"connection", "content-length", "forwarded"}
           /\ ~startsWith(NameChars(n), ForwardedPrefix)
      /\ Lookup(ex[e].uph, "host") = F(ex[e].url).urlObj.host


\* C22: the headers of the request sent upstream never contain cache-control
\* or pragma, whichever template matched and whatever headers the client sent
C22_NoCacheControlUpstream ==
  \A e \in Ex :
    ex[e].nFetch >= 1 =>
      /\ "cache-control" \notin DOMAIN ex[e].uph
      /\ "pragma" \notin DOMAIN ex[e].uph

\* C23: when the client request carries a Range header and the exchange is
\* not answered from the cache, the upstream request carries a Range header
\* with exactly the client's value, on the buffered and on the stream path
C23_RangeForwarded ==
  \A e \in Ex :
    (ex[e].nFetch >= 1 /\ Lookup(ex[e].req.headers, "range") # <<>>) =>
      Lookup(ex[e].uph, "range") = ex[e].req.headers["range"]

\* a request with a Range header was fetched on the buffered path and, the
\* upstream response being large, fetched again on the stream path
C23_Witness ==
  /\ ex[1].path = "handoff"
  /\ ex[1].nFetch = 2
  /\ ex[1].req.headers = RangeHeader(R_0_1)
  /\ ex[1].uph["range"] = R_0_1


\* C24: detectTransportStream returns true for a buffer if and only if its
\* length is at least 188, byte 0 is 0x47 and at least one of the offsets
\* 188, 376, 564, 752, 940 that lies inside the buffer holds 0x47
C24_SnifferIff ==
  call.fn = "detectTransportStream" =>
    (call.result <=>
       /\ call.buffer.len >= 188
       /\ 0 \in call.buffer.b47
       /\ \E o \in {188, 376, 564, 752, 940} :
            o < call.buffer.len /\ o \in call.buffer.b47)

\* the sniffer said yes to 189 bytes with 0x47 at offsets 0 and 188
C24_Witness ==
  /\ call.fn = "detectTransportStream"
  /\ call.buffer.len = 189
  /\ call.buffer.b47 = {0, 188}
  /\ call.result


\* C25: determineContentType returns video/mp2t for a URL that is a
\* disguised segment whenever the buffer does not sniff as MPEG-TS and the
\* .m3u8 rule does not apply, whatever the upstream Content-Type
C25_ArbiterDisguisedIsMp2t ==
  ( /\ call.fn = "determineContentType"
    /\ F(call.url).disguised
    /\ ~detectTransportStream(call.buffer)
    /\ ~( /\ F(call.url).m3u8Ext
          /\ \/ call.originalContentType = <<>>
             \/ ~CtIncludes(call.originalContentType, "application/vnd.apple.mpegurl")) )
  => call.result = <<"video/mp2t">>


\* C26: decompressContent with a declared encoding E in {gzip, br, zstd,
\* deflate} attempts codec E first; if E fails it attempts each other codec
\* once in the order zstd, gzip, brotli, deflate, skipping E, and returns the
\* output of the first codec that succeeds
C26_DeclaredThenFallbackOrder ==
  (call.fn = "decompressContent" /\ call.contentEncoding \in {"gzip", "br", "zstd", "deflate"}) =>
    LET E == IF call.contentEncoding = "br" THEN "brotli" ELSE call.contentEncoding
        order == <<E>> \o SelectSeq(<<"zstd", "gzip", "brotli", "deflate">>, LAMBDA m : m # E)
        hits == {i \in 1..4 : CodecOk(order[i], call.buffer)}
        first == CHOOSE i \in hits : \A j \in hits : i <= j
    IN IF hits = {}
       THEN call.result.tried = order
       ELSE /\ call.result.tried = SubSeq(order, 1, first)
            /\ call.result.out = CodecOut(call.buffer)

\* deflate bytes declared as gzip: gzip, zstd, brotli failed in that order
\* and deflate decoded them
C26_Witness ==
  /\ call.fn = "decompressContent"
  /\ call.contentEncoding = "gzip"
  /\ call.buffer.fmt = "deflate"
  /\ call.result.tried = <<"gzip", "zstd", "brotli", "deflate">>
  /\ call.result.out = CodecOut(call.buffer)

\* C27: decompressContent raises no error: whatever the bytes and the
\* declared encoding (known, unknown or absent), if every codec it attempted
\* failed it returns the input bytes unchanged
C27_AllFailReturnsInput ==
  call.fn = "decompressContent" =>
    /\ DOMAIN call.result = {"out", "tried", "ok"}
    /\ (\A i \in 1..Len(call.result.tried) : ~CodecOk(call.result.tried[i], call.buffer))
         => call.result.out = call.buffer

\* bytes of no codec declared as gzip: the four codecs failed and the bytes
\* came back as they were
C27_Witness ==
  /\ call.fn = "decompressContent"
  /\ call.contentEncoding = "gzip"
  /\ call.buffer.fmt = "none"
  /\ call.buffer.len = 5
  /\ Len(call.result.tried) = 4
  /\ call.result.out = call.buffer


\* the absolute URL of an image reference of a subtitle file at targetUrl
ExpectedImageUrl(ref, targetUrl) ==
  IF HasHttpScheme(ref) THEN ref
  ELSE IF startsWith(ref, <<"/","/">>) THEN ParseUrl(targetUrl).protocol \o ref
  ELSE IF startsWith(ref, <<"/">>)
       THEN ParseUrl(targetUrl).protocol \o <<"/","/">> \o ParseUrl(targetUrl).host \o ref
  ELSE Sub(targetUrl, 1, LastSlash(targetUrl, Len(targetUrl))) \o ref

\* the text expected for the cues: each image reference replaced by the
\* proxied URL of the reference resolved against the target URL
ExpectedVttText(cues, targetUrl) ==
  <<Tag("WEBVTT")>> \o [i \in 1..(2 * Len(cues)) |->
     IF i % 2 = 1 THEN VttTiming
     ELSE Uri(PROXY_BASE \o <<"?">> \o UrlParam \o <<"=">>
                \o encodeURIComponent(ExpectedImageUrl(cues[i \div 2].ref, targetUrl))
                \o cues[i \div 2].post)]

\* C28: processVttContent replaces every image reference of the text
\* (absolute, protocol-relative, root-relative or path-relative, with
\* extension jpg, jpeg, png, gif or webp) by
\* <proxyBaseUrl>?<urlParamName>=<percent-encoded absolute URL>, the reference
\* resolved against the target URL; the rest of the text is unchanged
C28_VttImagesRewritten ==
  call.fn = "processVttContent" =>
    call.result = ExpectedVttText(call.cues, call.targetUrl)


\* the exchange got an M3U8 response and answered with its body
M3u8Answered(e) ==
  /\ ex[e].st = "done"
  /\ ex[e].up.status = 200
  /\ ex[e].res.status = 200
  /\ ex[e].res.sends = 1
  /\ \/ ex[e].br = "m3u8"
     \/ ex[e].br \in {"s1", "s2"} /\ F(ex[e].url).m3u8Playlist

\* the upstream body with its content encoding undone
DecodedUpstreamBody(e) ==
  IF ex[e].up.cenc = "" THEN ex[e].up.body
  ELSE decompressContent(ex[e].up.body, ex[e].up.cenc).out

\* no line of the text is the #EXTM3U tag, in whatever case
LacksExtM3U(lines) ==
  \A i \in 1..Len(lines) :
    ~(lines[i].t = "tag" /\ lines[i].n \in {"#EXTM3U", "#extm3u", "#ExtM3u"})

C30_CorsOnEveryResponse ==
  \A e \in Ex :
    (ex[e].nReq >= 1 /\ ex[e].res.sends >= 1) => ex[e].res.acao = "*"

\* C31: when the buffered path has read the body of an upstream 206, the
\* client gets status 206, the upstream Content-Range and the upstream body
\* byte for byte: nothing is decompressed or rewritten, and nothing is
\* written to the cache
C31_PartialContentPassedThrough ==
  [][\A e \in Ex :
       (BodyResolve(e) /\ ex[e].path = "buffered" /\ ex[e].up.status = 206) =>
         /\ ex'[e].res.status = 206
         /\ ex'[e].res.crange = ex[e].up.crange
         /\ ex'[e].res.body = ex[e].up.body
         /\ ex'[e].res.sends = 1
         /\ cache' = cache]_vars

\* a gzip-encoded playlist served as 206 for a .m3u8 URL reached the client
\* still encoded, with its Content-Range
C31_Witness ==
  /\ ex[1].st = "done"
  /\ ex[1].path = "buffered"
  /\ F(ex[1].url).m3u8Ext
  /\ ex[1].up = PartialPlaylist
  /\ ex[1].res.status = 206
  /\ ex[1].res.crange = <<"bytes", 0, 39, 80>>
  /\ ex[1].res.body = PartialPlaylist.body
  /\ cache = <<>>

\* C32: every admitted request receives a response: whenever the handler of
\* an admitted request has run to its end, a response has been sent or
\* ended, also when reading or processing a text/vtt body failed
C32_HandlerEndsWithResponse ==
  \A e \in Ex :
    (ex[e].st = "done" /\ ex[e].nReq >= 1) => ex[e].res.sends >= 1

\* C33: for every exchange at most one response is sent to the client: no
\* path of proxyRequest or streamProxyRequest, error handlers and
\* fall-through branches included, sends or ends the response a second time
C33_AtMostOneResponse ==
  \A e \in Ex : ex[e].res.sends <= 1

\* a handoff to the stream path whose pipe broke after the first chunk: the
\* 'error' handler ended the response that the pipe had begun
C33_Witness ==
  /\ ex[1].st = "done"
  /\ ex[1].path = "handoff"
  /\ ex[1].br = "s4"
  /\ ex[1].res.sends = 1
  /\ ex[1].res.body.len = 1
  /\ ex[1].up.body.len > 1

\* C34: each exchange is counted once as a request and once as a response:
\* a finished exchange that reached proxyRequest has one recordRequest and
\* one recordResponse, and once all exchanges have finished the recorded
\* requests equal the recorded responses, handoffs to the stream path included
C34_CountedOnce ==
  (\A e \in Ex : ex[e].st \in {"idle", "done"}) =>
    /\ metrics.requests = metrics.responses
    /\ \A e \in Ex : ex[e].nReq >= 1 => (ex[e].nReq = 1 /\ ex[e].nResp = 1)

\* C35: a cache hit carries the Content-Type and the body of the cache-miss
\* response that populated the entry: when an exchange that wrote the cache
\* is followed by a hit for the same request, the two responses agree in
\* both
C35_HitMatchesMiss ==
  [][\A e \in Ex :
       (/\ ex[e].st = "done" /\ ex[e].put
        /\ ex'[e].st = "done" /\ ex'[e].hit
        /\ ex'[e].req = ex[e].req) =>
         /\ ex'[e].res.ctype = ex[e].res.ctype
         /\ ex'[e].res.body = ex[e].res.body]_vars

\* C36: the request timeout covers the reading of the upstream body as well
\* as the fetch: while an exchange reads (or pipes) the upstream body its
\* timer is still armed, so that the timeout elapsing then fires the
\* cancellation signal
C36_TimerCoversBody ==
  \A e \in Ex : ex[e].st \in {"fetch", "sfetch", "body", "pipe"} => ex[e].timer

\* the maps generateHeadersForUrl can build for a hostname: its template's
\* headers with one of the user agents, without cache-control and pragma
SnapshotsFor(hostname) ==
  {Without(Assign(Assign(TemplateOf(hostname).headers,
                         [n \in {"user-agent"} |-> userAgents[ua]]),
                  TemplateOf(hostname).headersFn),
           {"cache-control", "pragma"}) : ua \in 1..Len(userAgents)}

\* C37: a header map stored in the header cache never changes: a step that
\* adds a hostname stores the map built from its template, untouched by the
\* exchange whose lookup created it, and no step of any exchange alters or
\* removes the map of a hostname already stored
C37_HeaderSnapshotsImmutable ==
  [][\A h \in DOMAIN headerCache' :
       IF h \in DOMAIN headerCache THEN headerCache'[h] = headerCache[h]
       ELSE headerCache'[h] \in SnapshotsFor(h)]_vars

\* two exchanges to one hostname in progress at once, the first of which
\* created the stored map with client headers of its own at hand
C37_Witness ==
  /\ ex[1].st = "fetch" /\ ex[2].st = "fetch"
  /\ ex[1].req.headers = UaHeader
  /\ ex[2].req.headers = PortHeader
  /\ ex[1].url = U_PNG /\ ex[2].url = U_PNG
  /\ DOMAIN headerCache = {A_IO}
  /\ "x-forwarded-port" \notin DOMAIN headerCache[A_IO]
  /\ headerCache[A_IO]["user-agent"] = userAgents[2]
  /\ cache = <<>>

\* C38: the User-Agent sent upstream is one of the four fixed strings and is
\* drawn anew for each request: whenever a request can be received, each of
\* the four strings can be the User-Agent of the upstream request of a POST
\* to https://a.io/x.png (which is always fetched), whatever earlier requests
\* to that hostname were sent with
C38_UserAgentDrawnPerRequest ==
  /\ \A e \in Ex :
       ex[e].st \in {"fetch", "sfetch"} =>
         \E u \in 1..Len(userAgents) : Lookup(ex[e].uph, "user-agent") = userAgents[u]
  /\ (ex[1].st \in {"idle", "done"} /\ started < MaxExchanges) =>
       \A u \in 1..Len(userAgents) :
         ENABLED (/\ Receive(1, {Request("POST", U_PNG, NoHeaders)})
                  /\ Lookup(ex'[1].uph, "user-agent") = userAgents[u])

\* the URL of the call ends in .m3u8, in whatever case
CallUrlIsPlaylist ==
  \E n \in 5..Len(call.url) :
    /\ n = Len(call.url)
    /\ call.url[n - 4] = "."
    /\ call.url[n - 3] \in {"m", "M"}
    /\ call.url[n - 2] = "3"
    /\ call.url[n - 1] \in {"u", "U"}
    /\ call.url[n] = "8"

\* C39: determineContentType applies its rules in a fixed order: a buffer
\* that sniffs as MPEG-TS gives video/mp2t, also for a URL ending in .m3u8;
\* otherwise a URL ending in .m3u8 (in any case) whose upstream type lacks
\* application/vnd.apple.mpegurl gives application/vnd.apple.mpegurl;
\* otherwise the result is the upstream type if there is one, else
\* application/octet-stream
C39_ArbiterRuleOrder ==
  call.fn = "determineContentType" =>
    call.result =
      IF detectTransportStream(call.buffer) THEN <<"video/mp2t">>
      ELSE IF /\ CallUrlIsPlaylist
              /\ ~CtIncludes(call.originalContentType, "application/vnd.apple.mpegurl")
           THEN <<"application/vnd.apple.mpegurl">>
      ELSE IF call.originalContentType # <<>> THEN call.originalContentType
      ELSE <<"application/octet-stream">>

\* a transport stream fetched from a .m3u8 URL whose upstream type is not the
\* playlist type was given video/mp2t
C39_Witness ==
  /\ call.fn = "determineContentType"
  /\ call.buffer = TsBytes
  /\ call.url = U_M3U8
  /\ call.originalContentType = <<"image/png">>
  /\ call.result = <<"video/mp2t">>

\* the fingerprint of the exchange's own request
OwnFingerprint(x) == [url |-> x.url, accept |-> Lookup(x.req.headers, "accept")]

\* the response is the one a cache hit builds from an entry stored under the
\* exchange's own fingerprint
FromOwnCacheEntry(x, c) ==
  \E i \in 1..Len(c) :
    /\ c[i].key = OwnFingerprint(x)
    /\ x.res = CacheHitResponse(NewRes, c[i].data, Lookup(x.req.headers, "range"), x.url)

\* status, Content-Type, Content-Range and body are those of the exchange's
\* own upstream response (the body whole, or cut short by a broken pipe; the
\* two headers are not copied before an upstream error is forwarded by the
\* stream path)
FromOwnUpstream(x) ==
  /\ x.up.status # 0
  /\ x.res.status = x.up.status
  /\ x.res.ctype \in {x.up.ctype, <<>>}
  /\ x.res.crange \in {x.up.crange, <<>>}
  /\ x.res.body \in {x.up.body, BufferSlice(x.up.body, 0, 1), EmptyBody}

\* an error response the handler wrote itself
OwnErrorResponse(x) ==
  /\ x.res.status \in {400, 500, 504}
  /\ \/ x.res.body = EmptyBody
     \/ Len(x.res.body.pl) = 1 /\ x.res.body.pl[1].t = "error"

\* C40: in any interleaving of exchanges a step changes one exchange only,
\* and the status, headers and body an exchange sends derive from its own
\* request, its own upstream response or a cache entry stored under its own
\* fingerprint
C40_ExchangesIsolated ==
  [][\A e \in Ex :
       ex'[e] # ex[e] =>
         /\ \A f \in Ex \ {e} : ex'[f] = ex[f]
         /\ ex'[e].res.sends = 1 =>
              IF ex'[e].hit THEN FromOwnCacheEntry(ex'[e], cache)
              ELSE FromOwnUpstream(ex'[e]) \/ OwnErrorResponse(ex'[e])]_vars

\* while one exchange waited for its upstream, which then answered 404, the
\* other was answered from the cache entry of its own URL
C40_Witness ==
  /\ ex[1].st = "done" /\ ex[2].st = "done"
  /\ ex[1].url = U_FROST /\ ex[2].url = U_PNG
  /\ ex[1].up.status = 404 /\ ex[1].res.status = 404
  /\ ex[1].res.body = ex[1].up.body
  /\ ex[2].hit /\ ex[2].res.status = 200
  /\ ex[2].res.body = BinBody("png", 3, {})
  /\ metrics.responses = 3

====
